---- MODULE Spec2Model ----
(***************************************************************************)
(* Keyword scoring and rating of business texts: extract_features          *)
(* (dataset_create.py), label_esg (label.py) and                           *)
(* ESGPredictionValidator.predict_with_model (tests/prediction_validator). *)
(*                                                                         *)
(* A Python str is a sequence of characters, each character a one-letter   *)
(* string; "U+0131" is the single character LATIN SMALL LETTER DOTLESS I.  *)
(* A Python float is an exact fraction [num, den] in lowest terms.         *)
(***************************************************************************)
EXTENDS Integers, Sequences, FiniteSets, TLC

VARIABLES
    esg_keywords,   \* ESGPredictionValidator.esg_keywords
    ESG_KEYWORDS,   \* dataset_create.ESG_KEYWORDS
    text,           \* the value the caller passes to the next call
    ret,            \* what the last call on text returned or raised
    earlier,        \* a prediction the caller has kept from an earlier call
    calls,          \* the predict_with_model calls in flight, with their locals
    generator,      \* the OllamaESGGenerator, with the last return of its methods
    df,             \* label.py: the rows of the data frame
    validator,      \* the ESGPredictionValidator inside validate_prediction_accuracy
    manager,        \* the ESGTestManager with the files it tracks
    runner,         \* the MasterTestRunner
    setup           \* setup_esg_system.main

\* The state of the scripts and test harnesses around the scorer.
test_vars == <<df, validator, manager, runner, setup>>

vars == <<esg_keywords, ESG_KEYWORDS, text, ret, earlier, calls, generator, test_vars>>

\* Largest number of fragments concatenated into one generated text.
MaxWords == 2

----------------------------------------------------------------------------
(* Python values *)

Str(chars) == [type |-> "str", chars |-> chars]

None == [type |-> "NoneType", chars |-> <<>>]

Ok(v) == [raised |-> "", value |-> v]

Raise(exc) == [raised |-> exc]

RECURSIVE Gcd(_, _)
Gcd(a, b) == IF b = 0 THEN a ELSE Gcd(b, a % b)

\* The float n / d, d > 0.
Float(n, d) == [num |-> n \div Gcd(n, d), den |-> d \div Gcd(n, d)]

FloatLess(x, y) == x.num * y.den < y.num * x.den

\* a / b on ints
TrueDiv(a, b) == IF b = 0 THEN Raise("ZeroDivisionError") ELSE Ok(Float(a, b))

\* min(x, y): y only when it is strictly smaller
PyMin(x, y) == IF FloatLess(y, x) THEN y ELSE x

\* max(scores) of a non-empty list of ints
PyMax(scores) ==
    CHOOSE m \in {scores[i] : i \in 1..Len(scores)} :
        \A i \in 1..Len(scores) : scores[i] <= m

\* sum(scores) of a three-element list
PySum(scores) == scores[1] + scores[2] + scores[3]

ToLower ==
    "A" :> "a" @@ "B" :> "b" @@ "C" :> "c" @@ "D" :> "d" @@ "E" :> "e" @@ "F" :> "f" @@
    "G" :> "g" @@ "H" :> "h" @@ "I" :> "i" @@ "J" :> "j" @@ "K" :> "k" @@ "L" :> "l" @@
    "M" :> "m" @@ "N" :> "n" @@ "O" :> "o" @@ "P" :> "p" @@ "Q" :> "q" @@ "R" :> "r" @@
    "S" :> "s" @@ "T" :> "t" @@ "U" :> "u" @@ "V" :> "v" @@ "W" :> "w" @@ "X" :> "x" @@
    "Y" :> "y" @@ "Z" :> "z"

\* str.lower() of one character; the dotless i is lower case already
LowerChar(c) == IF c \in DOMAIN ToLower THEN ToLower[c] ELSE c

\* The text left as it is.
lower_unchanged(s) == s

\* str.lower()
lower(s) == [i \in 1..Len(s) |-> LowerChar(s[i])] \o <<>>

\* The start positions at which sub occurs in s.
Occurrences(s, sub) ==
    {i \in 1..(Len(s) - Len(sub) + 1) :
        s[i] = sub[1] /\ \A k \in 2..Len(sub) : s[i + k - 1] = sub[k]}

\* The left-to-right scan of str.count over the start positions lo..hi: an
\* occurrence at the scan position is counted and the scan resumes after it,
\* otherwise the scan moves on by one.  <<occurrences counted, next position>>
RECURSIVE Scan(_, _, _, _)
Scan(hits, m, lo, hi) ==
    IF lo > hi THEN <<0, lo>>
    ELSE IF lo = hi
         THEN IF lo \in hits THEN <<1, lo + m>> ELSE <<0, lo + 1>>
         ELSE LET left == Scan(hits, m, lo, (lo + hi) \div 2)
                  right == Scan(hits, m, left[2], hi)
              IN <<left[1] + right[1], right[2]>>

\* Only occurrences that are whole words are counted.
count_whole_words(s, sub) ==
    IF sub = <<>> THEN Len(s) + 1
    ELSE LET hits == {i \in Occurrences(s, sub) :
                         /\ i = 1 \/ s[i - 1] = " "
                         /\ i + Len(sub) > Len(s) \/ s[i + Len(sub)] = " "}
         IN IF hits = {} THEN 0 ELSE Scan(hits, Len(sub), 1, Len(s))[1]

\* Every position where sub starts is counted, overlapping or not.
count_overlapping(s, sub) ==
    IF sub = <<>> THEN Len(s) + 1 ELSE Cardinality(Occurrences(s, sub))

\* A keyword that is present is counted once, however often it occurs.
count_presence(s, sub) ==
    IF sub = <<>> THEN Len(s) + 1
    ELSE IF Occurrences(s, sub) = {} THEN 0 ELSE 1

\* s.count(sub): the number of non-overlapping occurrences of sub in s
count(s, sub) ==
    IF sub = <<>> THEN Len(s) + 1
    ELSE LET hits == Occurrences(s, sub)
         IN IF hits = {} THEN 0 ELSE Scan(hits, Len(sub), 1, Len(s))[1]

\* sum(text.count(w) for w in keywords)
RECURSIVE KeywordSum(_, _)
KeywordSum(s, keywords) ==
    IF keywords = <<>> THEN 0
    ELSE count(s, Head(keywords)) + KeywordSum(s, Tail(keywords))

\* d.get(key, [])
get_default(d, key) == IF key \in DOMAIN d THEN Ok(d[key]) ELSE Ok(<<>>)

\* d[key]
getitem(d, key) == IF key \in DOMAIN d THEN Ok(d[key]) ELSE Raise("KeyError")

----------------------------------------------------------------------------
(* The keyword indexes *)

\* ESGPredictionValidator.__init__: self.esg_keywords
ValidatorKeywords ==
    ( "environment" :> <<
          <<"r", "e", "n", "e", "w", "a", "b", "l", "e">>,
          <<"s", "o", "l", "a", "r">>,
          <<"c", "a", "r", "b", "o", "n">>,
          <<"e", "m", "i", "s", "s", "i", "o", "n">>,
          <<"s", "u", "s", "t", "a", "i", "n", "a", "b", "l", "e">>,
          <<"g", "r", "e", "e", "n">>,
          <<"c", "l", "i", "m", "a", "t", "e">>,
          <<"e", "n", "e", "r", "g", "y">>,
          <<"w", "a", "s", "t", "e">>,
          <<"r", "e", "c", "y", "c", "l", "i", "n", "g">>,
          <<"b", "i", "o", "d", "i", "v", "e", "r", "s", "i", "t", "y">>,
          <<"p", "o", "l", "l", "u", "t", "i", "o", "n">>
        >> @@
      "social" :> <<
          <<"c", "o", "m", "m", "u", "n", "i", "t", "y">>,
          <<"j", "o", "b", "s">>,
          <<"e", "m", "p", "l", "o", "y", "m", "e", "n", "t">>,
          <<"h", "e", "a", "l", "t", "h">>,
          <<"e", "d", "u", "c", "a", "t", "i", "o", "n">>,
          <<"s", "a", "f", "e", "t", "y">>,
          <<"d", "i", "v", "e", "r", "s", "i", "t", "y">>,
          <<"i", "n", "c", "l", "u", "s", "i", "o", "n">>,
          <<"h", "u", "m", "a", "n", " ", "r", "i", "g", "h", "t", "s">>,
          <<"w", "o", "r", "k", "e", "r", "s">>,
          <<"t", "r", "a", "i", "n", "i", "n", "g">>,
          <<"w", "e", "l", "f", "a", "r", "e">>
        >> @@
      "governance" :> <<
          <<"t", "r", "a", "n", "s", "p", "a", "r", "e", "n", "c", "y">>,
          <<"e", "t", "h", "i", "c", "s">>,
          <<"c", "o", "m", "p", "l", "i", "a", "n", "c", "e">>,
          <<"a", "c", "c", "o", "u", "n", "t", "a", "b", "i", "l", "i", "t", "y">>,
          <<"b", "o", "a", "r", "d">>,
          <<"g", "o", "v", "e", "r", "n", "a", "n", "c", "e">>,
          <<"r", "e", "p", "o", "r", "t", "i", "n", "g">>,
          <<"a", "u", "d", "i", "t">>,
          <<"i", "n", "t", "e", "g", "r", "i", "t", "y">>,
          <<"p", "o", "l", "i", "c", "y">>,
          <<"o", "v", "e", "r", "s", "i", "g", "h", "t">>
        >> )

\* An index written without care: a capitalised keyword and a repeated one.
DatasetKeywordsUnchecked ==
    ( "environment" :> <<
          <<"C", "a", "r", "b", "o", "n">>,
          <<"w", "a", "s", "t", "e">>,
          <<"w", "a", "s", "t", "e">>
        >> @@
      "social" :> << <<"j", "o", "b">> >> @@
      "governance" :> << <<"a", "u", "d", "i", "t">> >> )

\* One index for both call sites.
DatasetKeywordsShared == ValidatorKeywords

\* dataset_create.ESG_KEYWORDS
DatasetKeywords ==
    ( "environment" :> <<
          <<"c", "a", "r", "b", "o", "n">>,
          <<"e", "m", "i", "s", "s", "i", "o", "n">>,
          <<"r", "e", "n", "e", "w", "a", "b", "l", "e">>,
          <<"e", "n", "e", "r", "g", "y">>,
          <<"w", "a", "s", "t", "e">>,
          <<"c", "l", "i", "m", "a", "t", "e">>
        >> @@
      "social" :> <<
          <<"j", "o", "b">>,
          <<"c", "o", "m", "m", "u", "n", "i", "t", "y">>,
          <<"h", "e", "a", "l", "t", "h">>,
          <<"e", "d", "u", "c", "a", "t", "i", "o", "n">>,
          <<"s", "a", "f", "e", "t", "y">>
        >> @@
      "governance" :> <<
          <<"e", "t", "h", "i", "c", "s">>,
          <<"c", "o", "m", "p", "l", "i", "a", "n", "c", "e">>,
          <<"t", "r", "a", "n", "s", "p", "a", "r", "e", "n", "c", "y">>,
          <<"p", "o", "l", "i", "c", "y">>,
          <<"a", "u", "d", "i", "t">>
        >> )

----------------------------------------------------------------------------
(* dataset_create.py and label.py *)

\* extract_features(text); a text that is no str has no lower()
extract_features(KEYWORDS, t) ==
    IF t.type # "str" THEN Raise("AttributeError")
    ELSE LET s == lower(t.chars)
             env == getitem(KEYWORDS, "environment")
             soc == getitem(KEYWORDS, "social")
             gov == getitem(KEYWORDS, "governance")
         IN IF env.raised # "" THEN env
            ELSE IF soc.raised # "" THEN soc
            ELSE IF gov.raised # "" THEN gov
            ELSE Ok([env_score |-> KeywordSum(s, env.value),
                     soc_score |-> KeywordSum(s, soc.value),
                     gov_score |-> KeywordSum(s, gov.value)])

\* df["total_esg"] = df["env_score"] + df["soc_score"] + df["gov_score"]
total_esg(row) == row.env_score + row.soc_score + row.gov_score

\* The two upper ratings taken for each other.
label_esg_unordered(score) ==
    IF score < 200 THEN "Low"
    ELSE IF score < 600 THEN "High"
    ELSE "Medium"

\* label_esg with the lower limit taken as inclusive
label_esg_inclusive(score) ==
    IF score <= 200 THEN "Low"
    ELSE IF score < 600 THEN "Medium"
    ELSE "High"

label_esg(score) ==
    IF score < 200 THEN "Low"
    ELSE IF score < 600 THEN "Medium"
    ELSE "High"

\* One row of the data frame after label.py has run.
label_row(row) ==
    [env_score |-> row.env_score, soc_score |-> row.soc_score, gov_score |-> row.gov_score,
     total_esg |-> total_esg(row),
     sustainability_label |-> label_esg(total_esg(row))]

----------------------------------------------------------------------------
(* ESGPredictionValidator.predict_with_model *)

\* The social count taken with the environment keywords.
PredictFeaturesSameList(keywords, text_lower) ==
    [environment_score |-> KeywordSum(text_lower, keywords["environment"]),
     social_score |-> KeywordSum(text_lower, keywords["environment"]),
     governance_score |-> KeywordSum(text_lower, keywords["governance"])]

\* A keyword listed under two categories counts for the first of them only.
PredictFeaturesFirstCategory(keywords, text_lower) ==
    LET listed(k, category) ==
            \E i \in 1..Len(keywords[category]) : keywords[category][i] = k
    IN [environment_score |-> KeywordSum(text_lower, keywords["environment"]),
        social_score |->
            KeywordSum(text_lower,
                       SelectSeq(keywords["social"],
                                 LAMBDA k : ~listed(k, "environment"))),
        governance_score |->
            KeywordSum(text_lower,
                       SelectSeq(keywords["governance"],
                                 LAMBDA k : ~listed(k, "environment")
                                                /\ ~listed(k, "social")))]

\* features[f'{category}_score'] for the three categories of the index
PredictFeatures(keywords, text_lower) ==
    [environment_score |-> KeywordSum(text_lower, keywords["environment"]),
     social_score |-> KeywordSum(text_lower, keywords["social"]),
     governance_score |-> KeywordSum(text_lower, keywords["governance"])]

\* The features dict outlives the call: the sum picks up the total of the kept prediction.
PredictTotalStale(features) ==
    features.environment_score + features.social_score + features.governance_score
        + (IF earlier # <<>> THEN earlier[1].value.total_score ELSE 0)

\* total_esg = sum(features.values()), taken before total_esg joins features
PredictTotal(features) ==
    features.environment_score + features.social_score + features.governance_score

PredictRating(total) ==
    IF total < 200 THEN "Low"
    ELSE IF total < 600 THEN "Medium"
    ELSE "High"

\* No signal gives the confidence 0.0.
PredictConfidenceZeroDefault(scores) ==
    IF PyMax(scores) > 0
    THEN LET ratio == TrueDiv(PyMax(scores), PySum(scores))
         IN IF ratio.raised # "" THEN ratio
            ELSE Ok(PyMin(ratio.value, Float(1, 1)))
    ELSE Ok(Float(0, 1))

\* The ratio taken the wrong way round.
PredictConfidenceInverted(scores) ==
    IF PyMax(scores) > 0
    THEN LET ratio == TrueDiv(PySum(scores), PyMax(scores))
         IN IF ratio.raised # "" THEN ratio
            ELSE Ok(PyMin(ratio.value, Float(1, 1)))
    ELSE Ok(Float(1, 10))

\* The smallest count over the total.
PredictConfidenceSmallest(scores) ==
    IF PyMax(scores) > 0
    THEN LET smallest == IF scores[1] <= scores[2] /\ scores[1] <= scores[3] THEN scores[1]
                         ELSE IF scores[2] <= scores[3] THEN scores[2]
                         ELSE scores[3]
             ratio == TrueDiv(smallest, PySum(scores))
         IN IF ratio.raised # "" THEN ratio
            ELSE Ok(PyMin(ratio.value, Float(1, 1)))
    ELSE Ok(Float(1, 10))

\* The division without its guard.
PredictConfidenceUnguarded(scores) ==
    LET ratio == TrueDiv(PyMax(scores), PySum(scores))
    IN IF ratio.raised # "" THEN ratio
       ELSE Ok(PyMin(ratio.value, Float(1, 1)))

PredictConfidence(scores) ==
    IF PyMax(scores) > 0
    THEN LET ratio == TrueDiv(PyMax(scores), PySum(scores))
         IN IF ratio.raised # "" THEN ratio
            ELSE Ok(PyMin(ratio.value, Float(1, 1)))
    ELSE Ok(Float(1, 10))

\* The try block.
PredictTry(keywords, business_text) ==
    IF business_text.type # "str" THEN Raise("AttributeError")
    ELSE LET text_lower == lower(business_text.chars)
             features == PredictFeatures(keywords, text_lower)
             total == PredictTotal(features)
             rating == PredictRating(total)
             scores == <<features.environment_score, features.social_score,
                         features.governance_score>>
             confidence == PredictConfidence(scores)
         IN IF confidence.raised # "" THEN confidence
            ELSE Ok([prediction |-> rating,
                     confidence |-> confidence.value,
                     esg_scores |-> [Environmental |-> features.environment_score,
                                     Social |-> features.social_score,
                                     Governance |-> features.governance_score],
                     total_score |-> total,
                     features |-> [environment_score |-> features.environment_score,
                                   social_score |-> features.social_score,
                                   governance_score |-> features.governance_score,
                                   total_esg |-> total]])

\* The except branch.
PredictError(exc) ==
    [prediction |-> "Error",
     confidence |-> Float(0, 1),
     esg_scores |-> [Environmental |-> 0, Social |-> 0, Governance |-> 0],
     total_score |-> 0,
     error |-> exc]

predict_with_model(keywords, business_text) ==
    LET tried == PredictTry(keywords, business_text)
    IN IF tried.raised = "" THEN tried.value ELSE PredictError(tried.raised)

----------------------------------------------------------------------------
(* ESGPredictionValidator._calculate_expected_esg_profile *)

\* The multipliers of high_esg and low_esg taken for each other.
ApplyMultiplierSwapped(n, bias) ==
    IF bias = "low_esg" THEN (3 * n) \div 2
    ELSE IF bias = "high_esg" THEN (3 * n) \div 10
    ELSE n

\* int(count * multiplier) for the multipliers 1.5, 0.3 and 1.0; the float
\* product truncates to the exact quotient for every count below 3000.
ApplyMultiplier(n, bias) ==
    IF bias = "high_esg" THEN (3 * n) \div 2
    ELSE IF bias = "low_esg" THEN (3 * n) \div 10
    ELSE n

\* The counts after the bias adjustments.
BiasedCounts(counts, bias) ==
    LET doubled == [environment_score |->
                        IF bias = "env_focused" THEN counts.environment_score * 2
                        ELSE counts.environment_score,
                    social_score |->
                        IF bias = "social_focused" THEN counts.social_score * 2
                        ELSE counts.social_score,
                    governance_score |-> counts.governance_score]
    IN [environment_score |-> ApplyMultiplier(doubled.environment_score, bias),
        social_score |-> ApplyMultiplier(doubled.social_score, bias),
        governance_score |-> ApplyMultiplier(doubled.governance_score, bias)]

ExpectedRating(total) ==
    IF total < 200 THEN "Low"
    ELSE IF total < 600 THEN "Medium"
    ELSE "High"

\* There is no try block: a text that is no str raises.
calculate_expected_esg_profile(keywords, business_text, bias) ==
    IF business_text.type # "str" THEN Raise("AttributeError")
    ELSE LET text_lower == lower(business_text.chars)
             counted == [environment_score |->
                             KeywordSum(text_lower, keywords["environment"]),
                         social_score |-> KeywordSum(text_lower, keywords["social"]),
                         governance_score |->
                             KeywordSum(text_lower, keywords["governance"])]
             esg_counts == BiasedCounts(counted, bias)
             total == esg_counts.environment_score + esg_counts.social_score
                          + esg_counts.governance_score
         IN Ok([esg_scores |-> esg_counts,
                total_score |-> total,
                expected_rating |-> ExpectedRating(total)])

----------------------------------------------------------------------------
(* The texts the callers pass *)

Jobseeker ==
    <<"j", "o", "b", "s", "e", "e", "k", "e", "r">>

Space ==
    <<" ">>

CarbonUpper ==
    <<"C", "A", "R", "B", "O", "N">>

\* climate written with the dotless i
ClimateDotless ==
    <<"c", "l", "U+0131", "m", "a", "t", "e">>

Biodiversity ==
    <<"b", "i", "o", "d", "i", "v", "e", "r", "s", "i", "t", "y">>

Audit ==
    <<"a", "u", "d", "i", "t">>

Jobs ==
    <<"j", "o", "b", "s">>

\* test_edge_cases: 'Very Short Text'
VeryShortText ==
    <<"G", "r", "e", "e", "n", " ", "t", "e", "c", "h", " ", "s", "t", "a", "r", "t",
      "u", "p", ".">>

\* test_edge_cases: 'ESG Keyword Spam'
KeywordSpam ==
    <<"r", "e", "n", "e", "w", "a", "b", "l", "e", " ", "r", "e", "n", "e", "w", "a",
      "b", "l", "e", " ", "s", "u", "s", "t", "a", "i", "n", "a", "b", "l", "e", " ",
      "s", "u", "s", "t", "a", "i", "n", "a", "b", "l", "e", " ", "g", "r", "e", "e",
      "n", " ", "g", "r", "e", "e", "n", " ", "c", "o", "m", "m", "u", "n", "i", "t",
      "y", " ", "c", "o", "m", "m", "u", "n", "i", "t", "y", " ", "e", "t", "h", "i",
      "c", "s", " ", "e", "t", "h", "i", "c", "s", " ", "g", "o", "v", "e", "r", "n",
      "a", "n", "c", "e", " ", "g", "o", "v", "e", "r", "n", "a", "n", "c", "e">>

JobseekerTwice ==
    <<"j", "o", "b", "s", "e", "e", "k", "e", "r", " ", "j", "o", "b", "s", "e", "e",
      "k", "e", "r">>

RenewableScenario ==
    <<"r", "e", "n", "e", "w", "a", "b", "l", "e", " ", "r", "e", "n", "e", "w", "a",
      "b", "l", "e", " ", "r", "e", "n", "e", "w", "a", "b", "l", "e", " ", "c", "a",
      "r", "b", "o", "n", " ", "e", "m", "i", "s", "s", "i", "o", "n">>

HealthOverlap ==
    <<"h", "e", "a", "l", "t", "h", "e", "a", "l", "t", "h">>

Job ==
    <<"j", "o", "b">>

Solar ==
    <<"s", "o", "l", "a", "r">>

Fragments == {Jobseeker, Space, CarbonUpper, ClimateDotless, Biodiversity, Audit}

\* Every concatenation of at most n fragments.
RECURSIVE Concats(_)
Concats(n) ==
    IF n = 0 THEN {<<>>}
    ELSE LET shorter == Concats(n - 1)
         IN shorter \cup {t \o f : t \in shorter, f \in Fragments}

\* w repeated n times
Repeated(w, n) == [i \in 1..(n * Len(w)) |-> w[((i - 1) % Len(w)) + 1]] \o <<>>

\* Long documents whose keyword totals sit on either side of the two rating limits.
BoundaryDocuments == {Repeated(Jobs, n) : n \in {199, 200, 599, 600}}

Texts ==
    Concats(MaxWords) \cup BoundaryDocuments
        \cup {VeryShortText, KeywordSpam, JobseekerTwice, RenewableScenario}
        \cup {HealthOverlap, Job, Solar}

\* What a caller may pass: a str, or by mistake None.
Inputs == {None} \cup {Str(t) : t \in Texts}

\* The inputs a caller moves on to after its first one.
FollowUps == {None, Str(<<>>), Str(Jobseeker), Str(CarbonUpper)}

\* The esg_bias values of the business templates, and one that is none of them.
Biases == {"balanced", "high_esg", "low_esg", "env_focused", "social_focused", "other"}

CategoryNames == {"governance", "economic"}

----------------------------------------------------------------------------
(* The state machine *)

NoCall == [op |-> "none"]

Init ==
    /\ esg_keywords = ValidatorKeywords
    /\ ESG_KEYWORDS = DatasetKeywords
    /\ text \in Inputs
    /\ ret = NoCall
    /\ earlier = <<>>
    /\ calls = <<>>
    /\ generator = None
    /\ df = <<>>
    /\ validator = None
    /\ manager = None
    /\ runner = None
    /\ setup = None

\* features = extract_features(text)
ExtractFeatures ==
    /\ ret.op = "none"
    /\ ret' = [op |-> "extract_features", out |-> extract_features(ESG_KEYWORDS, text)]
    /\ UNCHANGED <<esg_keywords, ESG_KEYWORDS, text, earlier, calls, generator, test_vars>>

\* label.py on the row extract_features produced
LabelEsg ==
    /\ ret.op = "extract_features"
    /\ ret.out.raised = ""
    /\ ret' = [op |-> "label_esg", out |-> Ok(label_row(ret.out.value))]
    /\ UNCHANGED <<esg_keywords, ESG_KEYWORDS, text, earlier, calls, generator, test_vars>>

\* A call that uses up the first environment keyword of the index.
PredictWithModelConsuming ==
    /\ ret.op = "none"
    /\ ret' = [op |-> "predict_with_model",
               out |-> Ok(predict_with_model(esg_keywords, text))]
    /\ earlier' = IF earlier # <<>> /\ earlier[1].text # text
                  THEN <<[earlier[1] EXCEPT !.between = TRUE]>>
                  ELSE earlier
    /\ esg_keywords' = [esg_keywords EXCEPT
                           !["environment"] = SubSeq(@, 2, Len(@))]
    /\ UNCHANGED <<ESG_KEYWORDS, text, calls, generator, test_vars>>

\* prediction_result = self.predict_with_model(scenario['business_idea'])
PredictWithModel ==
    /\ ret.op = "none"
    /\ ret' = [op |-> "predict_with_model",
               out |-> Ok(predict_with_model(esg_keywords, text))]
    /\ earlier' = IF earlier # <<>> /\ earlier[1].text # text
                  THEN <<[earlier[1] EXCEPT !.between = TRUE]>>
                  ELSE earlier
    /\ UNCHANGED <<esg_keywords, ESG_KEYWORDS, text, calls, generator, test_vars>>

\* A profile calculation that drops the keyword it looked at first.
CalculateExpectedProfileConsuming(bias) ==
    /\ ret.op = "none"
    /\ ret' = [op |-> "_calculate_expected_esg_profile", bias |-> bias,
               out |-> calculate_expected_esg_profile(esg_keywords, text, bias)]
    /\ esg_keywords' = [esg_keywords EXCEPT !["social"] = SubSeq(@, 2, Len(@))]
    /\ UNCHANGED <<ESG_KEYWORDS, text, earlier, calls, generator, test_vars>>

\* expected_profile = self._calculate_expected_esg_profile(business_idea, bias)
CalculateExpectedProfile(bias) ==
    /\ ret.op = "none"
    /\ ret' = [op |-> "_calculate_expected_esg_profile", bias |-> bias,
               out |-> calculate_expected_esg_profile(esg_keywords, text, bias)]
    /\ UNCHANGED <<esg_keywords, ESG_KEYWORDS, text, earlier, calls, generator, test_vars>>

\* ESG_KEYWORDS[category], self.esg_keywords[category]
LookupKeywords(category) ==
    /\ ret.op = "none"
    /\ \E index \in {ESG_KEYWORDS, esg_keywords} :
          ret' = [op |-> "getitem", key |-> category, out |-> getitem(index, category)]
    /\ UNCHANGED <<esg_keywords, ESG_KEYWORDS, text, earlier, calls, generator, test_vars>>

\* The caller keeps the prediction (detailed_results.append).
KeepPrediction ==
    /\ ret.op = "predict_with_model"
    /\ earlier = <<>>
    /\ earlier' = <<[text |-> text, value |-> ret.out.value, between |-> FALSE]>>
    /\ UNCHANGED <<esg_keywords, ESG_KEYWORDS, text, ret, calls, generator, test_vars>>

\* The caller moves on to the next scenario.
NextText(t) ==
    /\ text' = t
    /\ ret' = NoCall
    /\ UNCHANGED <<esg_keywords, ESG_KEYWORDS, earlier, calls, generator, test_vars>>

\* The caller passes the same text, or the text of the kept prediction, once more.
Resubmit ==
    /\ ret.op # "none"
    /\ text' \in {text} \cup {earlier[i].text : i \in DOMAIN earlier}
    /\ ret' = NoCall
    /\ UNCHANGED <<esg_keywords, ESG_KEYWORDS, earlier, calls, generator, test_vars>>

Next ==
    \/ ExtractFeatures
    \/ LabelEsg
    \/ PredictWithModel
    \/ \E bias \in Biases : CalculateExpectedProfile(bias)
    \/ \E category \in CategoryNames : LookupKeywords(category)
    \/ KeepPrediction
    \/ \E t \in FollowUps : NextText(t)
    \/ Resubmit

Spec == Init /\ [][Next]_vars

----------------------------------------------------------------------------
(* predict_with_model called by several callers at once, statement by statement *)

\* Number of callers inside predict_with_model at the same time.
NumCallers == 2

Callers == 1..NumCallers

\* What the concurrent callers pass.
CallerTexts ==
    {None, Str(<<>>), Str(CarbonUpper \o Jobseeker), Str(Biodiversity \o Audit)}

\* self.esg_keywords.items() yields the categories in the order of the literal.
CategoryOrder == <<"environment", "social", "governance">>

\* f'{category}_score'
ScoreKey(category) ==
    CASE category = "environment" -> "environment_score"
      [] category = "social" -> "social_score"
      [] category = "governance" -> "governance_score"

\* sum(features.values())
RECURSIVE SumValues(_, _)
SumValues(d, keys) ==
    IF keys = {} THEN 0
    ELSE LET k == CHOOSE key \in keys : TRUE
         IN d[k] + SumValues(d, keys \ {k})

\* d[key] = value
SetItem(d, key, value) ==
    [k \in DOMAIN d \cup {key} |-> IF k = key THEN value ELSE d[k]]

\* The frame of a call that has been entered and has run no statement yet.
EnterCall(business_text) ==
    [pc |-> "line228", business_text |-> business_text, text_lower |-> <<>>,
     features |-> <<>>, todo |-> <<>>, total_esg |-> 0, rating |-> "",
     confidence |-> Float(0, 1), exc |-> "", result |-> None, overlapped |-> FALSE]

InitConcurrent ==
    /\ esg_keywords = ValidatorKeywords
    /\ ESG_KEYWORDS = DatasetKeywords
    /\ text = None
    /\ ret = NoCall
    /\ earlier = <<>>
    /\ calls \in [Callers -> {EnterCall(t) : t \in CallerTexts}]
    /\ generator = None
    /\ df = <<>>
    /\ validator = None
    /\ manager = None
    /\ runner = None
    /\ setup = None

\* Caller d is between its first statement and its return.
MidCall(d) == calls[d].pc \notin {"line228", "done"}

\* Caller c runs one statement; overlapped records that another call was under way.
Advance(c, locals) ==
    /\ calls' = [calls EXCEPT ![c] =
                    [locals EXCEPT !.overlapped = @ \/ \E d \in Callers \ {c} : MidCall(d)]]
    /\ UNCHANGED <<esg_keywords, ESG_KEYWORDS, text, ret, earlier, generator, test_vars>>

\* text_lower = business_text.lower()
Lower(c) ==
    /\ calls[c].pc = "line228"
    /\ IF calls[c].business_text.type # "str"
       THEN Advance(c, [calls[c] EXCEPT !.pc = "line264", !.exc = "AttributeError"])
       ELSE Advance(c, [calls[c] EXCEPT !.pc = "line229",
                                        !.text_lower = lower(calls[c].business_text.chars)])

\* features = {}, and the for statement takes its iterator
NewFeatures(c) ==
    /\ calls[c].pc = "line229"
    /\ Advance(c, [calls[c] EXCEPT !.pc = "line231", !.features = <<>>,
                                   !.todo = CategoryOrder])

\* One features dict for all callers: the count lands in every call's features.
CountCategoryShared(c) ==
    /\ calls[c].pc = "line231"
    /\ calls[c].todo # <<>>
    /\ LET category == Head(calls[c].todo)
           n == KeywordSum(calls[c].text_lower, esg_keywords[category])
       IN calls' = [d \in Callers |->
                       IF d = c
                       THEN [calls[c] EXCEPT
                                !.features = SetItem(@, ScoreKey(category), n),
                                !.todo = Tail(@),
                                !.pc = IF Len(calls[c].todo) = 1 THEN "line235" ELSE @,
                                !.overlapped = @ \/ \E e \in Callers \ {c} : MidCall(e)]
                       ELSE [calls[d] EXCEPT
                                !.features = IF ScoreKey(category) \in DOMAIN @
                                             THEN SetItem(@, ScoreKey(category), n)
                                             ELSE @]]
    /\ UNCHANGED <<esg_keywords, ESG_KEYWORDS, text, ret, earlier, generator, test_vars>>

\* One pass of the loop:
\* features[f'{category}_score'] = sum(text_lower.count(keyword) for keyword in keywords)
CountCategory(c) ==
    /\ calls[c].pc = "line231"
    /\ calls[c].todo # <<>>
    /\ LET category == Head(calls[c].todo)
           n == KeywordSum(calls[c].text_lower, esg_keywords[category])
       IN Advance(c, [calls[c] EXCEPT
                         !.features = SetItem(@, ScoreKey(category), n),
                         !.todo = Tail(@),
                         !.pc = IF Len(calls[c].todo) = 1 THEN "line235" ELSE @])

\* total_esg = sum(features.values())
SumFeatures(c) ==
    /\ calls[c].pc = "line235"
    /\ Advance(c, [calls[c] EXCEPT
                      !.total_esg = SumValues(calls[c].features, DOMAIN calls[c].features),
                      !.pc = "line236"])

\* features['total_esg'] = total_esg
StoreTotal(c) ==
    /\ calls[c].pc = "line236"
    /\ Advance(c, [calls[c] EXCEPT
                      !.features = SetItem(@, "total_esg", calls[c].total_esg),
                      !.pc = "line238"])

\* if total_esg < 200: ... elif total_esg < 600: ... else: ...
Rate(c) ==
    /\ calls[c].pc = "line238"
    /\ Advance(c, [calls[c] EXCEPT !.rating = PredictRating(calls[c].total_esg),
                                   !.pc = "line245"])

\* scores = [...]; confidence = min(max(scores) / sum(scores), 1.0) or 0.1
Confidence(c) ==
    /\ calls[c].pc = "line245"
    /\ LET features == calls[c].features
           scores == <<features["environment_score"], features["social_score"],
                       features["governance_score"]>>
           confidence == PredictConfidence(scores)
       IN IF confidence.raised # ""
          THEN Advance(c, [calls[c] EXCEPT !.pc = "line264", !.exc = confidence.raised])
          ELSE Advance(c, [calls[c] EXCEPT !.pc = "line252",
                                           !.confidence = confidence.value])

\* return {...}
Return(c) ==
    /\ calls[c].pc = "line252"
    /\ LET features == calls[c].features
       IN Advance(c, [calls[c] EXCEPT
              !.result = [prediction |-> calls[c].rating,
                          confidence |-> calls[c].confidence,
                          esg_scores |-> [Environmental |-> features["environment_score"],
                                          Social |-> features["social_score"],
                                          Governance |-> features["governance_score"]],
                          total_score |-> calls[c].total_esg,
                          features |-> features],
              !.pc = "done"])

\* except Exception as e: return {'prediction': 'Error', ...}
Except(c) ==
    /\ calls[c].pc = "line264"
    /\ Advance(c, [calls[c] EXCEPT !.result = PredictError(calls[c].exc), !.pc = "done"])

NextConcurrent ==
    \E c \in Callers :
        \/ Lower(c)
        \/ NewFeatures(c)
        \/ CountCategory(c)
        \/ SumFeatures(c)
        \/ StoreTotal(c)
        \/ Rate(c)
        \/ Confidence(c)
        \/ Return(c)
        \/ Except(c)

SpecConcurrent == InitConcurrent /\ [][NextConcurrent]_vars

----------------------------------------------------------------------------
(* ollama_integration.py: OllamaESGGenerator *)

\* In this part a str is a sequence of pieces: a marker the parser looks for
\* ("IDEA #", "CONCEPT:", "---", a newline, a blank) or a run of other characters.
Newline == "\n"

Whitespace == {" ", Newline}

\* The position of the first piece equal to sub, 0 when there is none.
Find(s, sub) ==
    IF \E i \in 1..Len(s) : s[i] = sub
    THEN CHOOSE i \in 1..Len(s) : s[i] = sub /\ \A j \in 1..(i - 1) : s[j] # sub
    ELSE 0

\* sub in s
Contains(s, sub) == Find(s, sub) # 0

\* s.split(sep)
RECURSIVE Split(_, _)
Split(s, sep) ==
    LET i == Find(s, sep)
    IN IF i = 0 THEN <<s>>
       ELSE <<SubSeq(s, 1, i - 1)>> \o Split(SubSeq(s, i + 1, Len(s)), sep)

\* s.strip()
Strip(s) ==
    LET kept == {i \in 1..Len(s) : s[i] \notin Whitespace}
    IN IF kept = {} THEN <<>>
       ELSE SubSeq(s, CHOOSE i \in kept : \A j \in kept : i <= j,
                      CHOOSE i \in kept : \A j \in kept : i >= j)

\* s.split(sep, 1)[1].strip(), for a sep that occurs in s
AfterMarker(s, sep) == Strip(SubSeq(s, Find(s, sep) + 1, Len(s)))

\* ', '.join(items)
RECURSIVE Join(_)
Join(items) ==
    IF items = <<>> THEN <<>>
    ELSE IF Len(items) = 1 THEN <<items[1]>>
    ELSE <<items[1], ", ">> \o Join(Tail(items))

\* OllamaESGGenerator._load_esg_context
load_esg_context == Str(<<"You are an ESG (Environmental, Social, Governance) expert">>)

\* What joblib.load("model/sustainbilty.pkl") returns; calls counts its invocations.
LoadedModel == [type |-> "model", calls |-> 0]

\* The model file at construction time.
ModelFiles == {"present", "missing", "unreadable"}

\* OllamaESGGenerator.__init__ with the default arguments
OllamaESGGenerator(model_file) ==
    [model_name |-> "gemma3:4b",
     ollama_url |-> "http://localhost:11434",
     esg_context |-> load_esg_context,
     esg_model |-> IF model_file = "present" THEN LoadedModel ELSE None]

\* OllamaESGGenerator._call_ollama: the request it sends and what it returns,
\* given what requests.post does.
call_ollama(self, prompt, system_prompt, reply) ==
    LET full_prompt == [system |-> IF system_prompt # None /\ system_prompt.chars # <<>>
                                   THEN system_prompt
                                   ELSE self.esg_context,
                        user |-> prompt]
        payload == [model |-> self.model_name, prompt |-> full_prompt, stream |-> FALSE,
                    options |-> [temperature |-> <<7, 10>>, top_p |-> <<9, 10>>,
                                 num_predict |-> 500]]
        request == [url |-> <<self.ollama_url, "/api/generate">>, json |-> payload,
                    timeout |-> 60]
        returned ==
            IF reply.kind = "raised"
            THEN Str(<<"Connection error: ">> \o reply.message)
            ELSE IF reply.status_code = 200
                 THEN IF reply.json.raised # ""
                      THEN Str(<<"Connection error: ">> \o reply.json.message)
                      ELSE IF "response" \in DOMAIN reply.json.value
                           THEN reply.json.value["response"]
                           ELSE Str(<<"Connection error: ", "'response'">>)
                 ELSE Str(<<"Error: ", ToString(reply.status_code), " - ">> \o reply.text)
    IN [request |-> request, out |-> Ok(returned)]

\* The idea dict of one section, filled from its lines in order.
RECURSIVE ParseLines(_, _)
ParseLines(idea, lines) ==
    IF lines = <<>> THEN idea
    ELSE LET line == Head(lines)
             filled ==
                 IF Contains(line, "CONCEPT:")
                 THEN [idea EXCEPT !.concept = AfterMarker(line, "CONCEPT:")]
                 ELSE IF Contains(line, "ENVIRONMENTAL:")
                 THEN [idea EXCEPT !.environmental = AfterMarker(line, "ENVIRONMENTAL:")]
                 ELSE IF Contains(line, "SOCIAL:")
                 THEN [idea EXCEPT !.social = AfterMarker(line, "SOCIAL:")]
                 ELSE IF Contains(line, "GOVERNANCE:")
                 THEN [idea EXCEPT !.governance = AfterMarker(line, "GOVERNANCE:")]
                 ELSE IF Contains(line, "SDGS:")
                 THEN [idea EXCEPT !.sdgs = AfterMarker(line, "SDGS:")]
                 ELSE idea
         IN ParseLines(filled, Tail(lines))

\* The ideas of the sections that hold 'IDEA #', in order.
RECURSIVE ParseSections(_)
ParseSections(sections) ==
    IF sections = <<>> THEN <<>>
    ELSE LET section == Head(sections)
             idea == [raw_text |-> Strip(section), concept |-> <<>>, environmental |-> <<>>,
                      social |-> <<>>, governance |-> <<>>, sdgs |-> <<>>]
         IN (IF Contains(section, "IDEA #")
             THEN <<ParseLines(idea, Split(Strip(section), Newline))>>
             ELSE <<>>) \o ParseSections(Tail(sections))

\* OllamaESGGenerator.generate_sustainable_business_ideas
generate_sustainable_business_ideas(self, args, reply) ==
    LET prompt == [method |-> "generate_sustainable_business_ideas",
                   num_ideas |-> args.num_ideas,
                   industry |-> IF args.industry # "" THEN args.industry
                                ELSE "Any industry",
                   focus_area |-> IF args.focus_area # "" THEN args.focus_area
                                  ELSE "General sustainability"]
        called == call_ollama(self, prompt, None, reply)
        response == called.out.value
    IN [request |-> called.request,
        out |-> IF response.type # "str" THEN Raise("AttributeError")
                ELSE Ok(ParseSections(Split(response.chars, "---")))]

\* esg_scores.get(key, 0)
ScoreOrZero(esg_scores, key) ==
    IF key \in DOMAIN esg_scores.items THEN esg_scores.items[key] ELSE 0

\* OllamaESGGenerator.explain_esg_decision
explain_esg_decision(self, args, reply) ==
    IF args.esg_scores.type # "dict"
    THEN [request |-> None, out |-> Raise("AttributeError")]
    ELSE call_ollama(self,
                     [method |-> "explain_esg_decision",
                      business_idea |-> args.business_idea,
                      environmental |-> ScoreOrZero(args.esg_scores, "Environmental"),
                      social |-> ScoreOrZero(args.esg_scores, "Social"),
                      governance |-> ScoreOrZero(args.esg_scores, "Governance"),
                      sustainability_rating |-> args.sustainability_rating],
                     None, reply)

\* OllamaESGGenerator.answer_esg_question
answer_esg_question(self, args, reply) ==
    call_ollama(self, [method |-> "answer_esg_question", question |-> args.question],
                None, reply)

\* OllamaESGGenerator.improve_business_idea
improve_business_idea(self, args, reply) ==
    call_ollama(self,
                [method |-> "improve_business_idea",
                 original_idea |-> args.original_idea,
                 weak_areas |-> Join(args.weak_areas)],
                None, reply)

\* OllamaESGGenerator.create_esg_business_plan_outline
create_esg_business_plan_outline(self, args, reply) ==
    call_ollama(self,
                [method |-> "create_esg_business_plan_outline",
                 business_idea |-> args.business_idea],
                None, reply)

\* A reply of the language model with two ideas in the format the prompt asks for.
TwoIdeas ==
    <<Newline, "IDEA #", "1: SolarLoop", Newline,
      "CONCEPT:", " ", "Solar panel recycling", Newline,
      "ENVIRONMENTAL:", " ", "Less waste", Newline,
      "SDGS:", " ", "12", Newline, "---",
      Newline, "IDEA #", "2: TrainLocal", Newline,
      "SOCIAL:", " ", "Job training", " ", Newline,
      "GOVERNANCE:", " ", "Open books", Newline, "---", Newline>>

\* What requests.post and response.json() can do.
Replies ==
    {[kind |-> "raised", message |-> <<"Connection refused">>],
     [kind |-> "response", status_code |-> 200, text |-> <<>>,
      json |-> Ok([response |-> Str(TwoIdeas)])],
     [kind |-> "response", status_code |-> 200, text |-> <<>>,
      json |-> Ok([response |-> Str(<<"A sustainable business balances", " ", "all three">>)])],
     [kind |-> "response", status_code |-> 200, text |-> <<>>,
      json |-> Ok([response |-> None])],
     [kind |-> "response", status_code |-> 200, text |-> <<>>,
      json |-> Ok([error |-> Str(<<"model is loading">>)])],
     [kind |-> "response", status_code |-> 200, text |-> <<"<html>">>,
      json |-> [raised |-> "JSONDecodeError", message |-> <<"Expecting value">>]],
     [kind |-> "response", status_code |-> 500, text |-> <<"model not found">>,
      json |-> Ok([error |-> Str(<<"model not found">>)])],
     [kind |-> "response", status_code |-> 400,
      text |-> <<"cannot handle prompt: ", "IDEA #", ": [Business Name]", Newline,
                 "CONCEPT:", " ", "[Brief description]">>,
      json |-> Ok([error |-> Str(<<"cannot handle prompt">>)])]}

SampleBusiness == "Solar panel recycling company with local job training programs"

Dict(items) == [type |-> "dict", items |-> items]

GenerateArgs ==
    [industry : {"", "Technology"}, focus_area : {"", "Climate action"}, num_ideas : {2, 3}]

ExplainArgs ==
    [business_idea : {SampleBusiness},
     esg_scores : {Dict([Environmental |-> 85, Social |-> 70, Governance |-> 45]),
                   Dict([Environmental |-> 85]),
                   [type |-> "NoneType", items |-> <<>>]},
     sustainability_rating : {"High", "Low"}]

QuestionArgs == [question : {"What makes a business truly sustainable?", ""}]

ImproveArgs ==
    [original_idea : {SampleBusiness},
     weak_areas : {<<>>, <<"Governance">>, <<"Social", "Governance">>}]

PlanArgs == [business_idea : {SampleBusiness, ""}]

\* No method of the generator has been called yet.
Constructed(self) ==
    [self |-> self, op |-> "none", args |-> <<>>, reply |-> <<>>,
     request |-> None, out |-> Ok(None)]

\* One method call on the generator: what it sent and what it returned.
Called(op, args, reply, done) ==
    /\ generator' = [generator EXCEPT !.op = op, !.args = args, !.reply = reply,
                                      !.request = done.request, !.out = done.out]
    /\ UNCHANGED <<esg_keywords, ESG_KEYWORDS, text, ret, earlier, calls, test_vars>>

\* ideas = generator.generate_sustainable_business_ideas(...)
GenerateIdeas ==
    /\ generator.op = "none"
    /\ \E args \in GenerateArgs, reply \in Replies :
           Called("generate_sustainable_business_ideas", args, reply,
                  generate_sustainable_business_ideas(generator.self, args, reply))

\* A method that asks the loaded model for a rating and puts it in the prompt.
ExplainEsgDecisionWithModel ==
    \E args \in ExplainArgs, reply \in Replies :
        LET asks == generator.self.esg_model # None
            rated == IF asks THEN [args EXCEPT !.sustainability_rating = "Medium"] ELSE args
            done == explain_esg_decision(generator.self, rated, reply)
        IN /\ generator.op = "none"
           /\ generator' = [generator EXCEPT
                               !.self.esg_model = IF asks THEN [@ EXCEPT !.calls = 1] ELSE @,
                               !.op = "explain_esg_decision", !.args = args,
                               !.reply = reply, !.request = done.request,
                               !.out = done.out]
           /\ UNCHANGED <<esg_keywords, ESG_KEYWORDS, text, ret, earlier, calls, test_vars>>

\* explanation = generator.explain_esg_decision(sample_business, sample_scores, "High")
ExplainEsgDecision ==
    /\ generator.op = "none"
    /\ \E args \in ExplainArgs, reply \in Replies :
           Called("explain_esg_decision", args, reply,
                  explain_esg_decision(generator.self, args, reply))

\* answer = generator.answer_esg_question(question)
AnswerEsgQuestion ==
    /\ generator.op = "none"
    /\ \E args \in QuestionArgs, reply \in Replies :
           Called("answer_esg_question", args, reply,
                  answer_esg_question(generator.self, args, reply))

\* generator.improve_business_idea(original_idea, weak_areas)
ImproveBusinessIdea ==
    /\ generator.op = "none"
    /\ \E args \in ImproveArgs, reply \in Replies :
           Called("improve_business_idea", args, reply,
                  improve_business_idea(generator.self, args, reply))

\* generator.create_esg_business_plan_outline(business_idea)
CreateEsgBusinessPlanOutline ==
    /\ generator.op = "none"
    /\ \E args \in PlanArgs, reply \in Replies :
           Called("create_esg_business_plan_outline", args, reply,
                  create_esg_business_plan_outline(generator.self, args, reply))

\* The caller is done with what the last method returned.
DropResult ==
    /\ generator.op # "none"
    /\ generator' = Constructed(generator.self)
    /\ UNCHANGED <<esg_keywords, ESG_KEYWORDS, text, ret, earlier, calls, test_vars>>

\* The texts rated while a generator exists.
RatedTexts == {Str(Solar), Str(Jobseeker)}

InitOllama ==
    /\ esg_keywords = ValidatorKeywords
    /\ ESG_KEYWORDS = DatasetKeywords
    /\ text \in RatedTexts
    /\ ret = NoCall
    /\ earlier = <<>>
    /\ calls = <<>>
    /\ generator \in {Constructed(OllamaESGGenerator(file)) : file \in ModelFiles}
    /\ df = <<>>
    /\ validator = None
    /\ manager = None
    /\ runner = None
    /\ setup = None

NextOllama ==
    \/ GenerateIdeas
    \/ ExplainEsgDecision
    \/ AnswerEsgQuestion
    \/ ImproveBusinessIdea
    \/ CreateEsgBusinessPlanOutline
    \/ DropResult
    \/ ExtractFeatures
    \/ LabelEsg
    \/ PredictWithModel
    \/ \E bias \in Biases : CalculateExpectedProfile(bias)

SpecOllama == InitOllama /\ [][NextOllama]_vars

----------------------------------------------------------------------------
(* label.py: the data frame *)

\* The scorer's variables, which the scripts and harnesses below leave alone.
scorer_vars == <<esg_keywords, ESG_KEYWORDS, text, ret, earlier, calls, generator>>

\* No scoring call is under way and no generator exists.
ScorerIdle ==
    /\ esg_keywords = ValidatorKeywords
    /\ ESG_KEYWORDS = DatasetKeywords
    /\ text = None
    /\ ret = NoCall
    /\ earlier = <<>>
    /\ calls = <<>>
    /\ generator = None

\* Number of rows of the data frame.
NumRows == 2

\* The rows read from esg_labeled.csv: counts whose sums lie around the two limits.
CsvRows == [env_score : {0, 1, 199, 200, 599, 600}, soc_score : {0, 1}, gov_score : {0, 1}]

InitLabel ==
    /\ ScorerIdle
    /\ df \in [1..NumRows -> CsvRows]
    /\ validator = None
    /\ manager = None
    /\ runner = None
    /\ setup = None

\* df["total_esg"] = ...; df["sustainability_label"] = df["total_esg"].apply(label_esg)
LabelDataFrame ==
    /\ \E i \in DOMAIN df : "sustainability_label" \notin DOMAIN df[i]
    /\ df' = [i \in DOMAIN df |-> label_row(df[i])]
    /\ UNCHANGED <<scorer_vars, validator, manager, runner, setup>>

NextLabel == LabelDataFrame

SpecLabel == InitLabel /\ [][NextLabel]_vars

----------------------------------------------------------------------------
(* ESGPredictionValidator.validate_prediction_accuracy *)

\* Largest number of mock scenarios generated at a time.
MaxScenarios == 2

\* the esg aspects of a filled template: "carbon reduction, health services, board diversity"
MockIdeaEsg ==
    <<"c", "a", "r", "b", "o", "n", " ", "r", "e", "d", "u", "c", "t", "i", "o", "n",
      ",", " ", "h", "e", "a", "l", "t", "h", " ", "s", "e", "r", "v", "i", "c", "e",
      "s", ",", " ", "b", "o", "a", "r", "d", " ", "d", "i", "v", "e", "r", "s", "i",
      "t", "y">>

\* the strategy of a filled low_esg template: "cost cutting"
MockIdeaProfit ==
    <<"c", "o", "s", "t", " ", "c", "u", "t", "t", "i", "n", "g">>

\* real_1, an excerpt: "renewable energy company"
RealIdea1 ==
    <<"r", "e", "n", "e", "w", "a", "b", "l", "e", " ", "e", "n", "e", "r", "g", "y",
      " ", "c", "o", "m", "p", "a", "n", "y">>

\* real_2, an excerpt: "online clothing retailer"
RealIdea2 ==
    <<"o", "n", "l", "i", "n", "e", " ", "c", "l", "o", "t", "h", "i", "n", "g", " ",
      "r", "e", "t", "a", "i", "l", "e", "r">>

\* real_3, an excerpt: "Powered by renewable energy, creating jobs"
RealIdea3 ==
    <<"P", "o", "w", "e", "r", "e", "d", " ", "b", "y", " ", "r", "e", "n", "e", "w",
      "a", "b", "l", "e", " ", "e", "n", "e", "r", "g", "y", ",", " ", "c", "r", "e",
      "a", "t", "i", "n", "g", " ", "j", "o", "b", "s">>

\* real_4, an excerpt: "digital community bank"
RealIdea4 ==
    <<"d", "i", "g", "i", "t", "a", "l", " ", "c", "o", "m", "m", "u", "n", "i", "t",
      "y", " ", "b", "a", "n", "k">>

\* real_5, an excerpt: "Global technology conglomerate"
RealIdea5 ==
    <<"G", "l", "o", "b", "a", "l", " ", "t", "e", "c", "h", "n", "o", "l", "o", "g",
      "y", " ", "c", "o", "n", "g", "l", "o", "m", "e", "r", "a", "t", "e">>

\* What random.choice makes of the templates: a business idea and its esg_bias.
MockPool ==
    {[business_idea |-> Str(MockIdeaEsg), esg_bias |-> "high_esg"],
     [business_idea |-> Str(MockIdeaProfit), esg_bias |-> "low_esg"]}

\* The choices of generate_mock_business_ideas(num_scenarios), num_scenarios <= n.
RECURSIVE MockChoices(_)
MockChoices(n) ==
    IF n = 0 THEN {<<>>}
    ELSE LET shorter == MockChoices(n - 1)
         IN shorter \cup {Append(chosen, pick) : chosen \in shorter, pick \in MockPool}

\* mock_scenarios of generate_mock_business_ideas for the choices made
MockScenarios(chosen) ==
    [i \in 1..Len(chosen) |->
        [id |-> <<"mock_", i>>,
         business_idea |-> chosen[i].business_idea,
         esg_bias |-> chosen[i].esg_bias,
         expected_profile |->
             calculate_expected_esg_profile(esg_keywords, chosen[i].business_idea,
                                            chosen[i].esg_bias).value,
         data_type |-> "mock"]]

\* real_scenarios of create_real_world_scenarios
RealScenarios ==
    <<[id |-> "real_1", business_idea |-> Str(RealIdea1), expected_rating |-> "High",
       data_type |-> "real_world"],
      [id |-> "real_2", business_idea |-> Str(RealIdea2), expected_rating |-> "Low",
       data_type |-> "real_world"],
      [id |-> "real_3", business_idea |-> Str(RealIdea3), expected_rating |-> "High",
       data_type |-> "real_world"],
      [id |-> "real_4", business_idea |-> Str(RealIdea4), expected_rating |-> "Medium",
       data_type |-> "real_world"],
      [id |-> "real_5", business_idea |-> Str(RealIdea5), expected_rating |-> "Low",
       data_type |-> "real_world"]>>

\* x + y on floats
FloatAdd(x, y) == Float(x.num * y.den + y.num * x.den, x.den * y.den)

\* np.mean of a non-empty list of floats
RECURSIVE FloatSum(_)
FloatSum(xs) == IF xs = <<>> THEN Float(0, 1) ELSE FloatAdd(Head(xs), FloatSum(Tail(xs)))

Mean(xs) == LET total == FloatSum(xs) IN Float(total.num, total.den * Len(xs))

\* scenario['business_idea'][:100] + "..."
Shortened(business_idea) ==
    LET chars == business_idea.chars
    IN Str(SubSeq(chars, 1, IF Len(chars) < 100 THEN Len(chars) ELSE 100)
               \o <<".", ".", ".">>)

\* A pass that tracks the data type of correct predictions only.
ValidateScenarioCorrectOnly(results, scenario) ==
    LET prediction_result == predict_with_model(esg_keywords, scenario.business_idea)
        expected == IF "expected_profile" \in DOMAIN scenario
                    THEN scenario.expected_profile.expected_rating
                    ELSE IF "expected_rating" \in DOMAIN scenario
                         THEN scenario.expected_rating
                         ELSE "Unknown"
        predicted == prediction_result.prediction
        is_correct == predicted = expected
        detailed_result == [scenario_id |-> scenario.id,
                            data_type |-> scenario.data_type,
                            business_idea |-> Shortened(scenario.business_idea),
                            expected |-> expected,
                            predicted |-> predicted,
                            correct |-> is_correct,
                            confidence |-> prediction_result.confidence,
                            esg_scores |-> prediction_result.esg_scores,
                            total_score |-> prediction_result.total_score]
        data_type == scenario.data_type
        by_type == IF data_type \in DOMAIN results.accuracy_by_type
                   THEN results.accuracy_by_type
                   ELSE SetItem(results.accuracy_by_type, data_type,
                                [correct |-> 0, total |-> 0])
        tracked == [by_type[data_type] EXCEPT
                       !.total = IF is_correct THEN @ + 1 ELSE @,
                       !.correct = IF is_correct THEN @ + 1 ELSE @]
    IN [results EXCEPT
           !.correct_predictions = IF is_correct THEN @ + 1 ELSE @,
           !.detailed_results = Append(@, detailed_result),
           !.confidence_stats = Append(@, prediction_result.confidence),
           !.accuracy_by_type = SetItem(by_type, data_type, tracked)]

\* One pass of the loop over all_scenarios.
ValidateScenario(results, scenario) ==
    LET prediction_result == predict_with_model(esg_keywords, scenario.business_idea)
        expected == IF "expected_profile" \in DOMAIN scenario
                    THEN scenario.expected_profile.expected_rating
                    ELSE IF "expected_rating" \in DOMAIN scenario
                         THEN scenario.expected_rating
                         ELSE "Unknown"
        predicted == prediction_result.prediction
        is_correct == predicted = expected
        detailed_result == [scenario_id |-> scenario.id,
                            data_type |-> scenario.data_type,
                            business_idea |-> Shortened(scenario.business_idea),
                            expected |-> expected,
                            predicted |-> predicted,
                            correct |-> is_correct,
                            confidence |-> prediction_result.confidence,
                            esg_scores |-> prediction_result.esg_scores,
                            total_score |-> prediction_result.total_score]
        data_type == scenario.data_type
        by_type == IF data_type \in DOMAIN results.accuracy_by_type
                   THEN results.accuracy_by_type
                   ELSE SetItem(results.accuracy_by_type, data_type,
                                [correct |-> 0, total |-> 0])
        tracked == [by_type[data_type] EXCEPT
                       !.total = @ + 1,
                       !.correct = IF is_correct THEN @ + 1 ELSE @]
    IN [results EXCEPT
           !.correct_predictions = IF is_correct THEN @ + 1 ELSE @,
           !.detailed_results = Append(@, detailed_result),
           !.confidence_stats = Append(@, prediction_result.confidence),
           !.accuracy_by_type = SetItem(by_type, data_type, tracked)]

\* results = {...}, before the loop
NewResults(all_scenarios) ==
    [total_scenarios |-> Len(all_scenarios),
     correct_predictions |-> 0,
     accuracy_by_type |-> <<>>,
     detailed_results |-> <<>>,
     confidence_stats |-> <<>>]

\* results after the loop, with overall_accuracy and average_confidence
Reported(results) ==
    [total_scenarios |-> results.total_scenarios,
     correct_predictions |-> results.correct_predictions,
     accuracy_by_type |-> results.accuracy_by_type,
     detailed_results |-> results.detailed_results,
     confidence_stats |-> results.confidence_stats,
     overall_accuracy |->
         TrueDiv(results.correct_predictions, results.total_scenarios).value,
     average_confidence |-> Mean(results.confidence_stats)]

\* validate_prediction_accuracy is not running.
NoFrame == [pc |-> "idle", all_scenarios |-> <<>>, next |-> 0, results |-> <<>>]

\* ESGPredictionValidator.__init__
NewValidator ==
    [self |-> [mock_data_scenarios |-> <<>>, real_world_scenarios |-> <<>>,
               test_results |-> <<>>],
     op |-> "none", out |-> Ok(None), frame |-> NoFrame]

InitValidate ==
    /\ ScorerIdle
    /\ validator = NewValidator
    /\ df = <<>>
    /\ manager = None
    /\ runner = None
    /\ setup = None

\* validator.generate_mock_business_ideas(num_scenarios)
GenerateMockBusinessIdeas ==
    /\ validator.frame.pc = "idle"
    /\ \E chosen \in MockChoices(MaxScenarios) :
           validator' = [validator EXCEPT
                            !.self.mock_data_scenarios = MockScenarios(chosen) \o <<>>,
                            !.op = "generate_mock_business_ideas",
                            !.out = Ok(MockScenarios(chosen) \o <<>>)]
    /\ UNCHANGED <<scorer_vars, df, manager, runner, setup>>

\* validator.create_real_world_scenarios()
CreateRealWorldScenarios ==
    /\ validator.frame.pc = "idle"
    /\ validator.self.real_world_scenarios = <<>>
    /\ validator' = [validator EXCEPT
                        !.self.real_world_scenarios = RealScenarios,
                        !.op = "create_real_world_scenarios",
                        !.out = Ok(RealScenarios)]
    /\ UNCHANGED <<scorer_vars, df, manager, runner, setup>>

\* validate_prediction_accuracy up to the loop: all_scenarios, the early return, results
ValidateStart ==
    /\ validator.frame.pc = "idle"
    /\ validator.op # "validate_prediction_accuracy"
    /\ LET all_scenarios ==
               validator.self.mock_data_scenarios \o validator.self.real_world_scenarios
       IN validator' =
              IF all_scenarios = <<>>
              THEN [validator EXCEPT !.op = "validate_prediction_accuracy",
                                     !.out = Ok(None)]
              ELSE [validator EXCEPT
                       !.op = "validate_prediction_accuracy",
                       !.out = Ok(None),
                       !.frame = [pc |-> "loop", all_scenarios |-> all_scenarios,
                                  next |-> 1, results |-> NewResults(all_scenarios)]]
    /\ UNCHANGED <<scorer_vars, df, manager, runner, setup>>

\* for scenario in all_scenarios: one pass
ValidateNext ==
    /\ validator.frame.pc = "loop"
    /\ validator.frame.next <= Len(validator.frame.all_scenarios)
    /\ validator' = [validator EXCEPT
                        !.frame.results =
                            ValidateScenario(@, validator.frame.all_scenarios[
                                                    validator.frame.next]),
                        !.frame.next = @ + 1]
    /\ UNCHANGED <<scorer_vars, df, manager, runner, setup>>

\* After the loop: the two averages, the report, self.test_results = results, return
ValidateFinish ==
    /\ validator.frame.pc = "loop"
    /\ validator.frame.next > Len(validator.frame.all_scenarios)
    /\ validator' = [validator EXCEPT
                        !.self.test_results = Reported(validator.frame.results),
                        !.out = Ok(Reported(validator.frame.results)),
                        !.frame = NoFrame]
    /\ UNCHANGED <<scorer_vars, df, manager, runner, setup>>

NextValidate ==
    \/ GenerateMockBusinessIdeas
    \/ CreateRealWorldScenarios
    \/ ValidateStart
    \/ ValidateNext
    \/ ValidateFinish

SpecValidate == InitValidate /\ [][NextValidate]_vars

----------------------------------------------------------------------------
(* tests/test_manager.py: ESGTestManager *)

\* Most paths one of the manager's lists holds in the runs examined
MaxTracked == 2

\* Names given to create_temp_file and create_temp_dir
FileNames == {"test_ollama_connection.py", "test_esg_evaluation.py"}
DirNames == {"temp_data"}

Bool(b) == [type |-> "bool", value |-> b]
PyInt(n) == [type |-> "int", value |-> n]

\* bool(result)
bool(result) ==
    CASE result.type = "bool" -> result.value
      [] result.type = "int" -> result.value # 0
      [] result.type = "str" -> result.chars # <<>>
      [] OTHER -> FALSE

\* isinstance(e, Exception): what `except Exception` catches
IsException(exc) == exc \notin {"KeyboardInterrupt", "SystemExit", "GeneratorExit"}

\* What a test function does: it creates files through the manager, then
\* returns a value or raises.
TestFunctions ==
    [creates : {<<>>} \cup {<<name>> : name \in FileNames},
     outcome : {Ok(Bool(TRUE)), Ok(Bool(FALSE)), Ok(None), Ok(PyInt(3)),
                Raise("TimeoutExpired"), Raise("KeyboardInterrupt")}]

\* One of cleanup's two loops: paths that exist and whose removal does not raise
\* are removed and counted.
RECURSIVE RemoveEach(_, _, _, _)
RemoveEach(paths, files, failing, cleanup_count) ==
    IF paths = <<>> THEN [files |-> files, cleanup_count |-> cleanup_count]
    ELSE IF Head(paths) \in failing \/ Head(paths) \notin files
         THEN RemoveEach(Tail(paths), files, failing, cleanup_count)
         ELSE RemoveEach(Tail(paths), files \ {Head(paths)}, failing, cleanup_count + 1)

\* cleanup that forgets nothing
cleanup_keeping_lists(self, files, failing) ==
    LET no_files == RemoveEach(self.temp_files, files, failing, 0)
        no_dirs == RemoveEach(self.temp_dirs, no_files.files, failing,
                              no_files.cleanup_count)
    IN [self |-> self, files |-> no_dirs.files,
        cleanup_count |-> no_dirs.cleanup_count]

\* ESGTestManager.cleanup; `failing` are the paths whose removal raises.
cleanup(self, files, failing) ==
    LET no_files == RemoveEach(self.temp_files, files, failing, 0)
        no_dirs == RemoveEach(self.temp_dirs, no_files.files, failing,
                              no_files.cleanup_count)
    IN [self |-> [self EXCEPT !.temp_files = <<>>, !.temp_dirs = <<>>],
        files |-> no_dirs.files,
        cleanup_count |-> no_dirs.cleanup_count]

\* create_temp_file: the file is written and its path appended.
create_temp_file(self, files, filename) ==
    [self |-> [self EXCEPT !.temp_files = Append(@, filename)],
     files |-> files \cup {filename}]

\* create_temp_dir
create_temp_dir(self, files, dirname) ==
    [self |-> [self EXCEPT !.temp_dirs = Append(@, dirname)],
     files |-> files \cup {dirname}]

\* The manager and the test directory after the body of test_function
RECURSIVE AfterTest(_, _, _)
AfterTest(self, files, creates) ==
    IF creates = <<>> THEN [self |-> self, files |-> files]
    ELSE LET made == create_temp_file(self, files, Head(creates))
         IN AfterTest(made.self, made.files, Tail(creates))

\* run_test_and_cleanup with the cleanup in the try block
run_test_and_cleanup_in_try(self, files, test_function, failing) ==
    LET tested == AfterTest(self, files, test_function.creates)
        cleaned == cleanup(tested.self, tested.files, failing)
    IN IF test_function.outcome.raised = ""
       THEN [self |-> cleaned.self, files |-> cleaned.files,
             events |-> <<"test_function", "cleanup">>,
             tracked |-> tested.self,
             out |-> Ok(Bool(bool(test_function.outcome.value)))]
       ELSE [self |-> tested.self, files |-> tested.files,
             events |-> <<"test_function">>,
             tracked |-> tested.self,
             out |-> IF IsException(test_function.outcome.raised)
                     THEN Ok(Bool(FALSE))
                     ELSE Raise(test_function.outcome.raised)]

\* ESGTestManager.run_test_and_cleanup
run_test_and_cleanup(self, files, test_function, failing) ==
    LET tested == AfterTest(self, files, test_function.creates)
        cleaned == cleanup(tested.self, tested.files, failing)
    IN [self |-> cleaned.self, files |-> cleaned.files,
        events |-> <<"test_function", "cleanup">>,
        tracked |-> tested.self,
        out |-> IF test_function.outcome.raised = ""
                THEN Ok(Bool(bool(test_function.outcome.value)))
                ELSE IF IsException(test_function.outcome.raised)
                     THEN Ok(Bool(FALSE))
                     ELSE Raise(test_function.outcome.raised)]

NoTest == [creates |-> <<>>, outcome |-> Ok(None)]

\* ESGTestManager.__init__, with an empty test directory
NewManager ==
    [self |-> [temp_files |-> <<>>, temp_dirs |-> <<>>],
     files |-> {},
     op |-> "none", test_function |-> NoTest, failing |-> {},
     tracked |-> [temp_files |-> <<>>, temp_dirs |-> <<>>],
     events |-> <<>>, out |-> Ok(None)]

InitManager ==
    /\ ScorerIdle
    /\ manager = NewManager
    /\ df = <<>>
    /\ validator = None
    /\ runner = None
    /\ setup = None

\* manager.create_temp_file(filename, content)
CreateTempFile ==
    /\ Len(manager.self.temp_files) < MaxTracked
    /\ \E filename \in FileNames :
           LET made == create_temp_file(manager.self, manager.files, filename)
           IN manager' = [NewManager EXCEPT !.self = made.self, !.files = made.files,
                                            !.op = "create_temp_file",
                                            !.out = Ok(Str(<<filename>>))]
    /\ UNCHANGED <<scorer_vars, df, validator, runner, setup>>

\* manager.create_temp_dir(dirname)
CreateTempDir ==
    /\ Len(manager.self.temp_dirs) < MaxTracked
    /\ \E dirname \in DirNames :
           LET made == create_temp_dir(manager.self, manager.files, dirname)
           IN manager' = [NewManager EXCEPT !.self = made.self, !.files = made.files,
                                            !.op = "create_temp_dir",
                                            !.out = Ok(Str(<<dirname>>))]
    /\ UNCHANGED <<scorer_vars, df, validator, runner, setup>>

\* manager.run_test_and_cleanup(test_function, test_name)
RunTestAndCleanup ==
    /\ manager.events = <<>>
    /\ \E test_function \in TestFunctions, failing \in SUBSET (FileNames \cup DirNames) :
           /\ Len(manager.self.temp_files) + Len(test_function.creates) <= MaxTracked
           /\ LET run == run_test_and_cleanup(manager.self, manager.files,
                                              test_function, failing)
              IN manager' = [self |-> run.self, files |-> run.files,
                             op |-> "run_test_and_cleanup",
                             test_function |-> test_function, failing |-> failing,
                             tracked |-> run.tracked,
                             events |-> run.events, out |-> run.out]
    /\ UNCHANGED <<scorer_vars, df, validator, runner, setup>>

\* manager.cleanup()
Cleanup ==
    /\ manager.events = <<>>
    /\ \E failing \in SUBSET (FileNames \cup DirNames) :
           LET cleaned == cleanup(manager.self, manager.files, failing)
           IN manager' = [self |-> cleaned.self, files |-> cleaned.files,
                          op |-> "cleanup",
                          test_function |-> NoTest, failing |-> failing,
                          tracked |-> manager.self,
                          events |-> <<"cleanup">>,
                          out |-> Ok(PyInt(cleaned.cleanup_count))]
    /\ UNCHANGED <<scorer_vars, df, validator, runner, setup>>

\* The caller is done with the value returned.
DropOutcome ==
    /\ manager.events # <<>>
    /\ manager' = [NewManager EXCEPT !.self = manager.self, !.files = manager.files]
    /\ UNCHANGED <<scorer_vars, df, validator, runner, setup>>

NextManager ==
    \/ CreateTempFile
    \/ CreateTempDir
    \/ RunTestAndCleanup
    \/ Cleanup
    \/ DropOutcome

SpecManager == InitManager /\ [][NextManager]_vars

----------------------------------------------------------------------------
(* run_tests.py: MasterTestRunner *)

\* test_suite of run_all_tests: (test_file, test_name) pairs. A file name is the
\* sequence of its pieces, the prefix and the suffix perform_cleanup looks at
\* being pieces of their own.
test_suite ==
    <<[test_file |-> <<"test_", "gemma", ".py">>,
       test_name |-> "Ollama Gemma Model Test"],
      [test_file |-> <<"test_", "manager", ".py">>,
       test_name |-> "Comprehensive Test Manager"]>>

\* name.startswith(prefix), name.endswith(suffix)
StartsWith(name, prefix) == name # <<>> /\ name[1] = prefix
EndsWith(name, suffix) == name # <<>> /\ name[Len(name)] = suffix

File(parent, name) == [parent |-> parent, name |-> name, is_file |-> TRUE]
Directory(parent, name) == [parent |-> parent, name |-> name, is_file |-> FALSE]

\* What the test directory may hold; parent is the path below the test directory.
PredictionValidator == File(<<>>, <<"prediction_validator", ".py">>)
CompiledTest == File(<<>>, <<"test_", "gemma", ".pyc">>)
PyCache == Directory(<<>>, <<"__pycache__">>)
CachedModule == File(<<"__pycache__">>, <<"test_", "manager", ".cpython-311", ".pyc">>)
NestedPyCache == Directory(<<"fixtures">>, <<"__pycache__">>)
TestDirEntries ==
    {File(<<>>, test_suite[1].test_file), File(<<>>, test_suite[2].test_file),
     PredictionValidator, CompiledTest, PyCache, CachedModule, NestedPyCache,
     Directory(<<>>, <<"fixtures">>)}

\* A directory's entries exist only while the directory does.
WellFormed(files) ==
    /\ CachedModule \in files => PyCache \in files
    /\ NestedPyCache \in files => Directory(<<>>, <<"fixtures">>) \in files

\* The entries perform_cleanup may fail to remove
Removable == {PredictionValidator, PyCache, NestedPyCache}

\* (self.test_dir / test_file).exists()
Exists(files, test_file) ==
    \E item \in files : item.parent = <<>> /\ item.name = test_file

\* What subprocess.run does: it returns a result with a returncode or raises.
SubprocessRuns ==
    {Ok(PyInt(0)), Ok(PyInt(1)), Raise("TimeoutExpired"), Raise("PermissionError"),
     Raise("KeyboardInterrupt")}

\* run_individual_test judging by the output rather than the exit code
run_individual_test_any_exit(files, test_file, run) ==
    IF ~Exists(files, test_file) THEN Ok(Bool(FALSE))
    ELSE IF run.raised = "" THEN Ok(Bool(TRUE))
    ELSE IF run.raised = "TimeoutExpired" THEN Ok(Bool(FALSE))
    ELSE IF IsException(run.raised) THEN Ok(Bool(FALSE))
    ELSE Raise(run.raised)

\* MasterTestRunner.run_individual_test
run_individual_test(files, test_file, run) ==
    IF ~Exists(files, test_file) THEN Ok(Bool(FALSE))
    ELSE IF run.raised = "" THEN Ok(Bool(run.value.value = 0))
    ELSE IF run.raised = "TimeoutExpired" THEN Ok(Bool(FALSE))
    ELSE IF IsException(run.raised) THEN Ok(Bool(FALSE))
    ELSE Raise(run.raised)

\* MasterTestRunner.generate_final_report: it prints, and divides by len(results).
generate_final_report(results) ==
    IF DOMAIN results = {} THEN Raise("ZeroDivisionError") ELSE Ok(None)

\* The entries inside a directory
Inside(files, directory) ==
    {item \in files : /\ Len(item.parent) > Len(directory.parent)
                      /\ SubSeq(item.parent \o <<>>, 1, Len(directory.parent) + 1)
                             = directory.parent \o directory.name}

\* name.startswith('test_') and not name.endswith('.pyc')
MainTestFile(item) == StartsWith(item.name, "test_") /\ ~EndsWith(item.name, ".pyc")

\* perform_cleanup keeping every file whose name starts with test_
perform_cleanup_keeping_pyc(files, failing) ==
    LET cleanup_items == {item \in files :
                              /\ item.parent = <<>>
                              /\ item.is_file
                              /\ ~StartsWith(item.name, "test_")
                              /\ item.name # <<"__pycache__">>}
        pycache_dirs == {item \in files : item.name = <<"__pycache__">>}
        removed_dirs == {item \in pycache_dirs : item.is_file = FALSE /\ item \notin failing}
        without_dirs == (files \ removed_dirs)
                            \ UNION {Inside(files, directory) : directory \in removed_dirs}
    IN without_dirs \ {item \in cleanup_items : item \notin failing}

\* MasterTestRunner.perform_cleanup; `failing` are the entries whose removal raises.
perform_cleanup(files, failing) ==
    LET cleanup_items == {item \in files :
                              /\ item.parent = <<>>
                              /\ item.is_file
                              /\ ~MainTestFile(item)
                              /\ item.name # <<"__pycache__">>}
        pycache_dirs == {item \in files : item.name = <<"__pycache__">>}
        removed_dirs == {item \in pycache_dirs : item.is_file = FALSE /\ item \notin failing}
        without_dirs == (files \ removed_dirs)
                            \ UNION {Inside(files, directory) : directory \in removed_dirs}
    IN without_dirs \ {item \in cleanup_items : item \notin failing}

\* The loop of run_all_tests from suite `next` on; it stops where a call raises.
RECURSIVE RunSuites(_, _, _, _, _)
RunSuites(results, files, runs, next, events) ==
    IF next > Len(test_suite)
    THEN [results |-> results, events |-> events, raised |-> ""]
    ELSE LET suite == test_suite[next]
             outcome == run_individual_test(files, suite.test_file, runs[next])
         IN IF outcome.raised # ""
            THEN [results |-> results, events |-> Append(events, suite.test_name),
                  raised |-> outcome.raised]
            ELSE RunSuites(SetItem(results, suite.test_name, outcome.value.value),
                           files, runs, next + 1, Append(events, suite.test_name))

\* run_all_tests cleaning up before the report
run_all_tests_cleanup_first(self, files, runs, failing) ==
    LET ran == RunSuites(self.results, files, runs, 1, <<>>)
    IN IF ran.raised # ""
       THEN [self |-> [self EXCEPT !.results = ran.results], files |-> files,
             events |-> ran.events, out |-> Raise(ran.raised)]
       ELSE [self |-> [self EXCEPT !.results = ran.results],
             files |-> perform_cleanup(files, failing),
             events |-> ran.events \o <<"perform_cleanup", "generate_final_report">>,
             out |-> Ok(ran.results)]

\* MasterTestRunner.run_all_tests
run_all_tests(self, files, runs, failing) ==
    LET ran == RunSuites(self.results, files, runs, 1, <<>>)
        report == generate_final_report(ran.results)
    IN IF ran.raised # ""
       THEN [self |-> [self EXCEPT !.results = ran.results], files |-> files,
             events |-> ran.events, out |-> Raise(ran.raised)]
       ELSE IF report.raised # ""
       THEN [self |-> [self EXCEPT !.results = ran.results], files |-> files,
             events |-> Append(ran.events, "generate_final_report"),
             out |-> Raise(report.raised)]
       ELSE [self |-> [self EXCEPT !.results = ran.results],
             files |-> perform_cleanup(files, failing),
             events |-> ran.events \o <<"generate_final_report", "perform_cleanup">>,
             out |-> Ok(ran.results)]

\* MasterTestRunner.__init__, beside some content of the test directory
NewRunner(files) ==
    [self |-> [results |-> <<>>],
     files |-> files,
     op |-> "none", test_file |-> <<>>, runs |-> <<>>, failing |-> {},
     before |-> {}, events |-> <<>>, out |-> Ok(None)]

InitRunner ==
    /\ ScorerIdle
    /\ \E files \in SUBSET TestDirEntries :
           /\ WellFormed(files)
           /\ runner = NewRunner(files)
    /\ df = <<>>
    /\ validator = None
    /\ manager = None
    /\ setup = None

\* runner.run_individual_test(test_file, test_name)
RunIndividualTest ==
    /\ runner.op = "none"
    /\ \E i \in DOMAIN test_suite, run \in SubprocessRuns :
           runner' = [runner EXCEPT
                         !.op = "run_individual_test",
                         !.test_file = test_suite[i].test_file,
                         !.runs = <<run>>,
                         !.events = <<test_suite[i].test_name>>,
                         !.out = run_individual_test(runner.files,
                                                     test_suite[i].test_file, run)]
    /\ UNCHANGED <<scorer_vars, df, validator, manager, setup>>

\* runner.run_all_tests()
RunAllTests ==
    /\ runner.op = "none"
    /\ \E runs \in [DOMAIN test_suite -> SubprocessRuns], failing \in SUBSET Removable :
           LET ran == run_all_tests(runner.self, runner.files, runs \o <<>>, failing)
           IN runner' = [self |-> ran.self, files |-> ran.files,
                         op |-> "run_all_tests", test_file |-> <<>>,
                         runs |-> runs \o <<>>, failing |-> failing,
                         before |-> runner.files,
                         events |-> ran.events, out |-> ran.out]
    /\ UNCHANGED <<scorer_vars, df, validator, manager, setup>>

\* runner.generate_final_report()
GenerateFinalReport ==
    /\ runner.op = "none"
    /\ runner' = [runner EXCEPT !.op = "generate_final_report",
                                !.events = <<"generate_final_report">>,
                                !.out = generate_final_report(runner.self.results)]
    /\ UNCHANGED <<scorer_vars, df, validator, manager, setup>>

\* runner.perform_cleanup()
PerformCleanup ==
    /\ runner.op = "none"
    /\ \E failing \in SUBSET Removable :
           runner' = [runner EXCEPT
                         !.files = perform_cleanup(runner.files, failing),
                         !.op = "perform_cleanup",
                         !.failing = failing,
                         !.before = runner.files,
                         !.events = <<"perform_cleanup">>,
                         !.out = Ok(None)]
    /\ UNCHANGED <<scorer_vars, df, validator, manager, setup>>

\* The caller is done with the value returned.
DropReturned ==
    /\ runner.op # "none"
    /\ runner' = [NewRunner(runner.files) EXCEPT !.self = runner.self]
    /\ UNCHANGED <<scorer_vars, df, validator, manager, setup>>

NextRunner ==
    \/ RunIndividualTest
    \/ RunAllTests
    \/ GenerateFinalReport
    \/ PerformCleanup
    \/ DropReturned

SpecRunner == InitRunner /\ [][NextRunner]_vars

----------------------------------------------------------------------------
(* setup_esg_system.py: main and its four steps *)

\* Most model lines `ollama list` prints in the runs examined
MaxModels == 2

\* Model names, as sequences of pieces
Llama32 == <<"llama3", ".2", ":3b">>
Llama3 == <<"llama3">>
Phi3 == <<"phi3", ":mini">>

\* good_models of setup_recommended_model
good_models == <<Llama32, <<"llama3", ".1", ":8b">>, <<"gemma3", ":4b">>, <<"mistral", ":7b">>>>

\* The lines after the header of `ollama list`, each the list of its fields; a
\* blank line has none.
ModelLines == {<<Llama32, <<"a80c4f17acd5">>>>, <<Llama3>>, <<Phi3>>, <<>>}

RECURSIVE ModelLists(_)
ModelLists(n) ==
    IF n = 0 THEN {<<>>}
    ELSE LET shorter == ModelLists(n - 1)
         IN shorter \cup {Append(models, line) : models \in shorter, line \in ModelLines}

\* The outcomes of subprocess.run(['ollama', 'list'])
ListRuns ==
    {Ok([returncode |-> 0, models |-> models]) : models \in ModelLists(MaxModels)}
        \cup {Ok([returncode |-> 1, models |-> <<>>]),
              Raise("FileNotFoundError"), Raise("KeyboardInterrupt")}

\* The outcomes of subprocess.run(['ollama', 'pull', 'llama3.2:3b'], timeout=300)
PullRuns ==
    {Ok(PyInt(0)), Ok(PyInt(1)), Raise("TimeoutExpired"), Raise("FileNotFoundError")}

\* The outcomes of the try blocks of run_quick_test and run_complete_demo
QuickTestBodies == {Ok(None), Raise("AttributeError"), Raise("KeyboardInterrupt")}
DemoBodies == {Ok(None), Raise("ModuleNotFoundError")}

\* check_ollama_status: (status, models), or what it lets through
check_ollama_status(run) ==
    IF run.raised # ""
    THEN IF IsException(run.raised)
         THEN Ok([status |-> FALSE, models |-> <<>>])
         ELSE Raise(run.raised)
    ELSE IF run.value.returncode = 0
         THEN Ok([status |-> TRUE, models |-> run.value.models])
         ELSE Ok([status |-> FALSE, models |-> <<>>])

\* sub in s, for names
IsSubstring(sub, s) ==
    \E i \in 1..(Len(s) + 1) :
        /\ i + Len(sub) - 1 <= Len(s)
        /\ SubSeq(s, i, i + Len(sub) - 1) = sub

\* model_line.split()[0] if model_line.strip() else ""
ModelName(model_line) == IF model_line # <<>> THEN model_line[1] ELSE <<>>

\* The inner loop: some good model holds the name or is held by it.
Suitable(model_name) ==
    \E i \in DOMAIN good_models :
        IsSubstring(good_models[i], model_name) \/ IsSubstring(model_name, good_models[i])

\* The outer loop: available_model on leaving it
RECURSIVE AvailableModel(_)
AvailableModel(models) ==
    IF models = <<>> THEN <<>>
    ELSE LET model_name == ModelName(Head(models))
         IN IF Suitable(model_name) /\ model_name # <<>>
            THEN model_name
            ELSE AvailableModel(Tail(models))

\* setup_recommended_model
setup_recommended_model(list_run, pull_run) ==
    LET checked == check_ollama_status(list_run)
    IN IF checked.raised # "" THEN checked
       ELSE IF ~checked.value.status THEN Ok(Bool(FALSE))
       ELSE LET models == checked.value.models
                available_model == AvailableModel(models)
            IN IF available_model # <<>> THEN Ok(Str(available_model))
               ELSE IF pull_run.raised = ""
                    THEN IF pull_run.value.value = 0 THEN Ok(Str(Llama32)) ELSE Ok(None)
               ELSE IF pull_run.raised = "TimeoutExpired"
                    THEN IF models = <<>> THEN Ok(None)
                         ELSE IF Head(models) = <<>> THEN Raise("IndexError")
                         ELSE Ok(Str(Head(models)[1]))
               ELSE IF IsException(pull_run.raised) THEN Ok(None)
               ELSE Raise(pull_run.raised)

\* run_quick_test and run_complete_demo: True, or False when the body raises
run_quick_test(body) ==
    IF body.raised = "" THEN Ok(Bool(TRUE))
    ELSE IF IsException(body.raised) THEN Ok(Bool(FALSE))
    ELSE Raise(body.raised)

run_complete_demo(body) ==
    IF body.raised = "" THEN Ok(Bool(TRUE))
    ELSE IF IsException(body.raised) THEN Ok(Bool(FALSE))
    ELSE Raise(body.raised)

\* main going on to the quick test whatever the model is
AfterModelUngated(model) == "step3"

\* Where main goes after each step
AfterCheck(status) == IF status THEN "step2" ELSE "returned"
AfterModel(model) == IF bool(model) THEN "step3" ELSE "returned"
AfterQuickTest(passed) == IF bool(passed) THEN "step4" ELSE "returned"

\* main has been called and has run no step yet.
MainCalled ==
    [pc |-> "step1", steps |-> <<>>, status |-> FALSE, models |-> <<>>,
     model |-> None, quick |-> None, demo |-> None, banner |-> FALSE, raised |-> ""]

InitSetup ==
    /\ ScorerIdle
    /\ setup = MainCalled
    /\ df = <<>>
    /\ validator = None
    /\ manager = None
    /\ runner = None

\* A step let an exception through: main ends with it.
Raised(step, exc) ==
    [setup EXCEPT !.pc = "raised", !.steps = Append(@, step), !.raised = exc]

\* Step 1: status, models = check_ollama_status()
CheckOllamaStatus ==
    /\ setup.pc = "step1"
    /\ \E run \in ListRuns :
           LET checked == check_ollama_status(run)
           IN setup' = IF checked.raised # ""
                       THEN Raised("check_ollama_status", checked.raised)
                       ELSE [setup EXCEPT
                                !.pc = AfterCheck(checked.value.status),
                                !.steps = Append(@, "check_ollama_status"),
                                !.status = checked.value.status,
                                !.models = checked.value.models]
    /\ UNCHANGED <<scorer_vars, df, validator, manager, runner>>

\* Step 2: model = setup_recommended_model()
SetupRecommendedModel ==
    /\ setup.pc = "step2"
    /\ \E list_run \in ListRuns, pull_run \in PullRuns :
           LET returned == setup_recommended_model(list_run, pull_run)
           IN setup' = IF returned.raised # ""
                       THEN Raised("setup_recommended_model", returned.raised)
                       ELSE [setup EXCEPT
                                !.pc = AfterModel(returned.value),
                                !.steps = Append(@, "setup_recommended_model"),
                                !.model = returned.value]
    /\ UNCHANGED <<scorer_vars, df, validator, manager, runner>>

\* Step 3: if run_quick_test()
RunQuickTest ==
    /\ setup.pc = "step3"
    /\ \E body \in QuickTestBodies :
           LET returned == run_quick_test(body)
           IN setup' = IF returned.raised # ""
                       THEN Raised("run_quick_test", returned.raised)
                       ELSE [setup EXCEPT
                                !.pc = AfterQuickTest(returned.value),
                                !.steps = Append(@, "run_quick_test"),
                                !.quick = returned.value]
    /\ UNCHANGED <<scorer_vars, df, validator, manager, runner>>

\* Step 4: if run_complete_demo(), and the banner
RunCompleteDemo ==
    /\ setup.pc = "step4"
    /\ \E body \in DemoBodies :
           LET returned == run_complete_demo(body)
           IN setup' = [setup EXCEPT
                           !.pc = "returned",
                           !.steps = Append(@, "run_complete_demo"),
                           !.demo = returned.value,
                           !.banner = bool(returned.value)]
    /\ UNCHANGED <<scorer_vars, df, validator, manager, runner>>

NextSetup ==
    \/ CheckOllamaStatus
    \/ SetupRecommendedModel
    \/ RunQuickTest
    \/ RunCompleteDemo

SpecSetup == InitSetup /\ [][NextSetup]_vars

\* Every step main has begun comes to an end.
SpecSetupFair == SpecSetup /\ WF_vars(NextSetup)

----------------------------------------------------------------------------
(* The keywords themselves as texts *)

KeywordsOf(index) ==
    UNION {{index[category][i] : i \in 1..Len(index[category])} :
               category \in DOMAIN index}

KeywordTexts == KeywordsOf(ValidatorKeywords) \cup KeywordsOf(DatasetKeywords)

InitKeywordTexts ==
    /\ esg_keywords = ValidatorKeywords
    /\ ESG_KEYWORDS = DatasetKeywords
    /\ text \in {Str(k) : k \in KeywordTexts}
    /\ ret = NoCall
    /\ earlier = <<>>
    /\ calls = <<>>
    /\ generator = None
    /\ df = <<>>
    /\ validator = None
    /\ manager = None
    /\ runner = None
    /\ setup = None

SpecKeywordTexts == InitKeywordTexts /\ [][Next]_vars

----------------------------------------------------------------------------
(* An index that lists one keyword under two categories *)

\* carbon, an environment keyword of both indexes
SharedKeyword == <<"c", "a", "r", "b", "o", "n">>

\* The index literal with the shared keyword added to the governance list.
WithSharedKeyword(index) ==
    [index EXCEPT !["governance"] = Append(@, SharedKeyword)]

InitSharedKeyword ==
    /\ esg_keywords = WithSharedKeyword(ValidatorKeywords)
    /\ ESG_KEYWORDS = WithSharedKeyword(DatasetKeywords)
    /\ text \in {None} \cup {Str(t) : t \in Concats(MaxWords)}
    /\ ret = NoCall
    /\ earlier = <<>>
    /\ calls = <<>>
    /\ generator = None
    /\ df = <<>>
    /\ validator = None
    /\ manager = None
    /\ runner = None
    /\ setup = None

SpecSharedKeyword == InitSharedKeyword /\ [][Next]_vars

----------------------------------------------------------------------------
(* Properties *)

Returned == ret.out.value

\* The last call was predict_with_model and it took the try branch to its end.
Predicted == ret.op = "predict_with_model" /\ Returned.prediction # "Error"

Extracted == ret.op = "extract_features" /\ ret.out.raised = ""

Labelled == ret.op = "label_esg"

\* The rating the two limits assign to a total.
RatingOf(total) ==
    CASE total < 200 -> "Low"
      [] 200 <= total /\ total < 600 -> "Medium"
      [] total >= 600 -> "High"

\* C1: label_esg and the rating branch of predict_with_model return Low for a
\* total below 200, Medium from 200 to 599 and High from 600 on.
C1_RatingThresholds ==
    /\ Labelled =>
          Returned.sustainability_label = RatingOf(Returned.total_esg)
    /\ Predicted =>
          Returned.prediction = RatingOf(Returned.total_score)

C1_Witness ==
    /\ Predicted
    /\ Returned.total_score = 600
    /\ Returned.prediction = "High"

\* C2: the total of a prediction is the sum of the three category counts of
\* that same prediction, whatever an earlier call returned.
C2_TotalIsSum ==
    Predicted =>
        /\ Returned.total_score =
              Returned.esg_scores.Environmental + Returned.esg_scores.Social
                  + Returned.esg_scores.Governance
        /\ Returned.features.total_esg =
              Returned.features.environment_score + Returned.features.social_score
                  + Returned.features.governance_score
        /\ Returned.features.total_esg = Returned.total_score

C2_Witness ==
    /\ Predicted
    /\ Returned.total_score > 0
    /\ earlier # <<>>
    /\ earlier[1].value.total_score > 0
    /\ earlier[1].value.total_score # Returned.total_score

\* C3: predict_with_model on the empty string returns the counts 0, 0, 0, the
\* total 0, the rating Low and the confidence 0.1, and not the error outcome.
C3_EmptyInput ==
    (ret.op = "predict_with_model" /\ text = Str(<<>>)) =>
        /\ ret.out.raised = ""
        /\ Returned.esg_scores = [Environmental |-> 0, Social |-> 0, Governance |-> 0]
        /\ Returned.total_score = 0
        /\ Returned.prediction = "Low"
        /\ Returned.confidence = [num |-> 1, den |-> 10]

C3_Witness == ret.op = "predict_with_model" /\ text = Str(<<>>)

\* The largest of three counts.
Largest(a, b, c) ==
    IF a >= b /\ a >= c THEN a ELSE IF b >= c THEN b ELSE c

\* C4: the confidence is 0.1 when the total is 0 and otherwise exactly the
\* largest category count divided by the total; it lies in [0, 1].
C4_ConfidenceFormula ==
    Predicted =>
        LET e == Returned.esg_scores.Environmental
            s == Returned.esg_scores.Social
            g == Returned.esg_scores.Governance
            c == Returned.confidence
        IN /\ e + s + g = 0 => c = [num |-> 1, den |-> 10]
           /\ e + s + g > 0 => c.num * (e + s + g) = Largest(e, s, g) * c.den
           /\ c.den > 0 /\ 0 <= c.num /\ c.num <= c.den

C4_Witness ==
    /\ Predicted
    /\ Returned.esg_scores.Environmental > Returned.esg_scores.Social
    /\ Returned.esg_scores.Social > 0
    /\ Returned.confidence = [num |-> 2, den |-> 3]

ToUpper ==
    "a" :> "A" @@ "b" :> "B" @@ "c" :> "C" @@ "d" :> "D" @@ "e" :> "E" @@ "f" :> "F" @@
    "g" :> "G" @@ "h" :> "H" @@ "i" :> "I" @@ "j" :> "J" @@ "k" :> "K" @@ "l" :> "L" @@
    "m" :> "M" @@ "n" :> "N" @@ "o" :> "O" @@ "p" :> "P" @@ "q" :> "Q" @@ "r" :> "R" @@
    "s" :> "S" @@ "t" :> "T" @@ "u" :> "U" @@ "v" :> "V" @@ "w" :> "W" @@ "x" :> "X" @@
    "y" :> "Y" @@ "z" :> "Z" @@ "U+0131" :> "I"

\* T.upper(): the dotless i has the upper case I, like the dotted i.
UpperCased(s) ==
    [i \in 1..Len(s) |-> IF s[i] \in DOMAIN ToUpper THEN ToUpper[s[i]] ELSE s[i]] \o <<>>

\* T.lower()
LowerCased(s) ==
    [i \in 1..Len(s) |-> IF s[i] \in DOMAIN ToLower THEN ToLower[s[i]] ELSE s[i]] \o <<>>

IsAscii(s) == \A i \in 1..Len(s) : s[i] # "U+0131"

\* Some keyword of the list occurs in s.
SomeOccurs(s, keywords) ==
    \E i \in 1..Len(keywords) : Occurrences(s, keywords[i]) # {}

\* C5: a text in which an environment keyword occurs and no social or governance
\* keyword occurs (letter case aside) gets social = governance = 0 and confidence 1.0.
C5_EnvironmentOnly ==
    (Predicted /\ text.type = "str") =>
        LET s == LowerCased(text.chars)
        IN (/\ SomeOccurs(s, ValidatorKeywords["environment"])
            /\ ~SomeOccurs(s, ValidatorKeywords["social"])
            /\ ~SomeOccurs(s, ValidatorKeywords["governance"]))
           => /\ Returned.esg_scores.Social = 0
              /\ Returned.esg_scores.Governance = 0
              /\ Returned.confidence = [num |-> 1, den |-> 1]

C5_Witness ==
    /\ Predicted
    /\ text = Str(CarbonUpper \o CarbonUpper)
    /\ Returned.esg_scores.Environmental = 2
    /\ Returned.confidence = [num |-> 1, den |-> 1]

\* The last call scored text and returned category counts.
Scored == text.type = "str" /\ (Extracted \/ Predicted)

\* The category counts the last call returned.
Counts ==
    IF ret.op = "extract_features"
    THEN <<Returned.env_score, Returned.soc_score, Returned.gov_score>>
    ELSE <<Returned.esg_scores.Environmental, Returned.esg_scores.Social,
           Returned.esg_scores.Governance>>

\* The category counts the function of the last call returns for the text t.
CountsFor(t) ==
    IF ret.op = "extract_features"
    THEN LET x == extract_features(ESG_KEYWORDS, Str(t)).value
         IN <<x.env_score, x.soc_score, x.gov_score>>
    ELSE LET p == predict_with_model(esg_keywords, Str(t)).esg_scores
         IN <<p.Environmental, p.Social, p.Governance>>

\* C6 as stated: a text, the text upper-cased and the text lower-cased get the
\* same category counts from extract_features and from predict_with_model.
C6_CaseInsensitive ==
    Scored =>
        /\ Counts = CountsFor(LowerCased(text.chars))
        /\ Counts = CountsFor(UpperCased(text.chars))

\* C6 amended: a text and the text lower-cased get the same category counts, and
\* so does the text upper-cased when the text is ASCII.
C6_CaseInsensitiveAscii ==
    Scored =>
        /\ Counts = CountsFor(LowerCased(text.chars))
        /\ IsAscii(text.chars) => Counts = CountsFor(UpperCased(text.chars))

C6_Witness ==
    /\ Scored
    /\ text = Str(CarbonUpper)
    /\ Counts = <<1, 0, 0>>

\* C7: a keyword inside a longer word is counted: "jobseeker jobseeker" has the
\* social count 2, from extract_features and from predict_with_model.
C7_SubstringMatching ==
    text = Str(JobseekerTwice) =>
        /\ ret.op = "extract_features" => ret.out.raised = "" /\ Returned.soc_score = 2
        /\ ret.op = "predict_with_model" => Predicted /\ Returned.esg_scores.Social = 2

C7_Witness ==
    /\ text = Str(JobseekerTwice)
    /\ Predicted
    /\ Returned.esg_scores.Social = 2

\* C8: a prediction for a text equals the prediction an earlier call returned for
\* the same text, whatever was predicted for other texts in between.
C8_Deterministic ==
    (ret.op = "predict_with_model" /\ earlier # <<>> /\ earlier[1].text = text) =>
        Returned = earlier[1].value

C8_Witness ==
    /\ Predicted
    /\ earlier # <<>>
    /\ earlier[1].text = text
    /\ earlier[1].between
    /\ Returned.total_score > 0

KnownCategories == {"environment", "social", "governance"}

C10_NoErrorForStr ==
    (ret.op = "predict_with_model" /\ text.type = "str") =>
        /\ ret.out.raised = ""
        /\ Returned.prediction \in {"Low", "Medium", "High"}
        /\ Returned.confidence # [num |-> 0, den |-> 1]

C10_Witness ==
    /\ Predicted
    /\ text = Str(ClimateDotless \o Space)
    /\ Returned.prediction = "Low"

\* The characters str.lower leaves as they are.
IsLowercase(s) == \A i \in 1..Len(s) : s[i] \notin DOMAIN ToLower

\* A keyword index whose categories are non-empty lists of distinct lowercase strings.
WellFormedIndex(index) ==
    \A category \in DOMAIN index :
        LET keywords == index[category]
        IN /\ Len(keywords) > 0
           /\ \A i \in 1..Len(keywords) :
                  /\ Len(keywords[i]) > 0
                  /\ IsLowercase(keywords[i])
                  /\ \A j \in 1..Len(keywords) : keywords[i] = keywords[j] => i = j

\* C11: every category of ESG_KEYWORDS and of self.esg_keywords is a non-empty
\* list of lowercase strings in which no keyword occurs twice.
C11_KeywordSetsWellFormed ==
    /\ DOMAIN esg_keywords = KnownCategories
    /\ DOMAIN ESG_KEYWORDS = KnownCategories
    /\ WellFormedIndex(esg_keywords)
    /\ WellFormedIndex(ESG_KEYWORDS)

C11_Witness ==
    /\ ret.op = "getitem"
    /\ ret.key = "governance"
    /\ ret.out.raised = ""
    /\ Len(ret.out.value) = 5
    /\ WellFormedIndex(ESG_KEYWORDS)

ScoringOps == {"extract_features", "predict_with_model", "_calculate_expected_esg_profile"}

\* What a caller kept of an earlier prediction, without the bookkeeping flag.
Kept(history) == [i \in DOMAIN history |-> <<history[i].text, history[i].value>>]

\* C12: both keyword indexes have their construction value in the first state and
\* after every step, and a call of extract_features, predict_with_model or
\* _calculate_expected_esg_profile changes nothing but its own return value.
C12_IndexUnchanged ==
    /\ esg_keywords = ValidatorKeywords
    /\ ESG_KEYWORDS = DatasetKeywords
    /\ [][/\ esg_keywords' = ValidatorKeywords
          /\ ESG_KEYWORDS' = DatasetKeywords
          /\ (ret.op = "none" /\ ret'.op \in ScoringOps) =>
                 text' = text /\ Kept(earlier') = Kept(earlier)]_vars

C12_Witness ==
    /\ ret.op = "_calculate_expected_esg_profile"
    /\ ret.bias = "env_focused"
    /\ ret.out.raised = ""
    /\ Returned.total_score > 0
    /\ earlier # <<>>
    /\ earlier[1].between
    /\ esg_keywords = ValidatorKeywords
    /\ ESG_KEYWORDS = DatasetKeywords

\* C14 as stated: "renewable renewable renewable carbon emission" gets the
\* environment count 4, the other counts 0, the total 4 and the confidence 1.0.
C14_EnvironmentCountFour ==
    (text = Str(RenewableScenario) /\ (Scored \/ Labelled)) =>
        /\ Scored => Counts = <<4, 0, 0>>
        /\ Predicted => Returned.total_score = 4
                            /\ Returned.confidence = [num |-> 1, den |-> 1]
        /\ Labelled => Returned.total_esg = 4

\* C14 amended: "renewable renewable renewable carbon emission" gets the
\* environment count 5 (renewable three times, carbon once, emission once), the
\* other counts 0, the total 5, the rating Low and the confidence 1.0.
C14_EnvironmentCountFive ==
    (text = Str(RenewableScenario) /\ (Scored \/ Labelled)) =>
        /\ Scored => Counts = <<5, 0, 0>>
        /\ Predicted => /\ Returned.total_score = 5
                        /\ Returned.total_score = Returned.esg_scores.Environmental
                        /\ Returned.prediction = "Low"
                        /\ Returned.confidence = [num |-> 1, den |-> 1]
        /\ Labelled => /\ Returned.total_esg = 5
                       /\ Returned.total_esg = Returned.env_score
                       /\ Returned.sustainability_label = "Low"

C14_Witness ==
    /\ text = Str(RenewableScenario)
    /\ Predicted
    /\ Returned.esg_scores.Environmental = 5
    /\ Returned.total_score = 5
    /\ Returned.confidence = [num |-> 1, den |-> 1]

\* The occurrences of sub in s from position i on, taken greedily from the left.
RECURSIVE GreedyFrom(_, _, _)
GreedyFrom(s, sub, i) ==
    IF i + Len(sub) - 1 > Len(s) THEN 0
    ELSE IF \A k \in 1..Len(sub) : s[i + k - 1] = sub[k]
         THEN 1 + GreedyFrom(s, sub, i + Len(sub))
         ELSE GreedyFrom(s, sub, i + 1)

RECURSIVE GreedySum(_, _)
GreedySum(s, keywords) ==
    IF keywords = <<>> THEN 0
    ELSE GreedyFrom(s, Head(keywords), 1) + GreedySum(s, Tail(keywords))

\* The longest text the greedy scan is compared on.
ShortText == 64

\* C16: a category count is the sum over the category's keywords of the number
\* of disjoint occurrences found greedily from the left in the lower-cased text;
\* "healthealth" holds one occurrence of health, not two.
C16_NonOverlappingCount ==
    /\ (Scored /\ Len(text.chars) <= ShortText) =>
           LET index == IF ret.op = "extract_features" THEN ESG_KEYWORDS ELSE esg_keywords
               s == LowerCased(text.chars)
           IN Counts = <<GreedySum(s, index["environment"]),
                         GreedySum(s, index["social"]),
                         GreedySum(s, index["governance"])>>
    /\ (Scored /\ text = Str(HealthOverlap)) => Counts = <<0, 1, 0>>

C16_Witness ==
    /\ text = Str(HealthOverlap)
    /\ Extracted
    /\ Returned.soc_score = 1

\* C18: the two call sites hold different keyword lists for the same three
\* categories; on "job" extract_features counts one social keyword where
\* predict_with_model counted none, and on "solar" predict_with_model counted
\* one environment keyword where extract_features counts none.
C18_CallSitesDiffer ==
    /\ DOMAIN esg_keywords = DOMAIN ESG_KEYWORDS
    /\ \A category \in DOMAIN esg_keywords :
           esg_keywords[category] # ESG_KEYWORDS[category]
    /\ (Extracted /\ earlier # <<>> /\ earlier[1].text = text) =>
           LET predicted == earlier[1].value.esg_scores
           IN /\ text = Str(Job) =>
                     Returned.soc_score = 1 /\ predicted.Social = 0
              /\ text = Str(Solar) =>
                     Returned.env_score = 0 /\ predicted.Environmental = 1

C18_Witness ==
    /\ Extracted
    /\ earlier # <<>>
    /\ earlier[1].text = text
    /\ text = Str(Solar)
    /\ Counts # <<earlier[1].value.esg_scores.Environmental,
                  earlier[1].value.esg_scores.Social,
                  earlier[1].value.esg_scores.Governance>>

\* C20: a prediction with a total above 0 has a confidence of at least 1/3 and
\* at most 1, the largest count being at least a third of the total; a
\* confidence below 1/3 is the 0.1 of a prediction whose total is 0.
C20_ConfidenceAtLeastThird ==
    Predicted =>
        LET confidence == Returned.confidence
            largest == Largest(Returned.esg_scores.Environmental,
                               Returned.esg_scores.Social,
                               Returned.esg_scores.Governance)
        IN /\ Returned.total_score > 0 =>
                  /\ 3 * largest >= Returned.total_score
                  /\ 3 * confidence.num >= confidence.den
                  /\ confidence.num <= confidence.den
           /\ 3 * confidence.num < confidence.den =>
                  /\ confidence = [num |-> 1, den |-> 10]
                  /\ Returned.total_score = 0

C20_Witness ==
    /\ Predicted
    /\ Returned.total_score = 3
    /\ Returned.confidence = [num |-> 1, den |-> 3]

\* The index the last scoring call read.
IndexRead == IF ret.op = "extract_features" THEN ESG_KEYWORDS ELSE esg_keywords

\* The counts of a text that holds one keyword of the category and no other.
OnlyCategory(category) ==
    <<IF category = "environment" THEN 1 ELSE 0,
      IF category = "social" THEN 1 ELSE 0,
      IF category = "governance" THEN 1 ELSE 0>>

Diversity == <<"d", "i", "v", "e", "r", "s", "i", "t", "y">>

\* k occurs in the keyword longer, which is another keyword.
ContainedIn(k, longer) == k # longer /\ Occurrences(longer, k) # {}

\* C19 as stated: a text that is one keyword of a category of the index gets the
\* count 1 for that category and 0 for the other two, and no keyword of an index
\* occurs in another keyword of that index.
C19_OneKeywordOneCategory ==
    /\ \A index \in {esg_keywords, ESG_KEYWORDS} :
           \A k \in KeywordsOf(index), longer \in KeywordsOf(index) :
               ~ContainedIn(k, longer)
    /\ Scored =>
           \A category \in DOMAIN IndexRead :
               text.chars \in {IndexRead[category][i] :
                                   i \in 1..Len(IndexRead[category])} =>
                   Counts = OnlyCategory(category)

\* C19 amended: the same, except that in self.esg_keywords the environment
\* keyword biodiversity contains the social keyword diversity, so the text
\* "biodiversity" gets the environment count 1 and the social count 1 from
\* predict_with_model; no other keyword of an index occurs in another one.
C19_OneKeywordExceptBiodiversity ==
    /\ \A k \in KeywordsOf(ESG_KEYWORDS), longer \in KeywordsOf(ESG_KEYWORDS) :
           ~ContainedIn(k, longer)
    /\ \A k \in KeywordsOf(esg_keywords), longer \in KeywordsOf(esg_keywords) :
           ContainedIn(k, longer) <=> (k = Diversity /\ longer = Biodiversity)
    /\ Scored =>
           \A category \in DOMAIN IndexRead :
               text.chars \in {IndexRead[category][i] :
                                   i \in 1..Len(IndexRead[category])} =>
                   Counts = IF ret.op = "predict_with_model" /\ text.chars = Biodiversity
                            THEN <<1, 1, 0>>
                            ELSE OnlyCategory(category)

C19_Witness ==
    /\ Predicted
    /\ text = Str(Biodiversity)
    /\ Returned.esg_scores.Environmental = 1
    /\ Returned.esg_scores.Social = 1
    /\ Returned.total_score = 2

\* The index without the shared keyword in any category.
WithoutSharedKeyword(index) ==
    [category \in DOMAIN index |->
        SelectSeq(index[category], LAMBDA k : k # SharedKeyword)]

\* The categories of the index read that list the shared keyword.
SharingCategories ==
    {category \in DOMAIN IndexRead :
        \E i \in 1..Len(IndexRead[category]) : IndexRead[category][i] = SharedKeyword}

\* C17: with carbon listed under environment and under governance, each
\* occurrence of carbon in the text adds 1 to the environment count and 1 to the
\* governance count, and so 2 to the total, at both call sites.
C17_SharedKeywordCountsTwice ==
    (Scored /\ SharingCategories = {"environment", "governance"}) =>
        LET n == GreedyFrom(LowerCased(text.chars), SharedKeyword, 1)
            plain == WithoutSharedKeyword(IndexRead)
            s == LowerCased(text.chars)
            rest == <<GreedySum(s, plain["environment"]), GreedySum(s, plain["social"]),
                      GreedySum(s, plain["governance"])>>
        IN /\ Counts = <<rest[1] + n, rest[2], rest[3] + n>>
           /\ Predicted =>
                  Returned.total_score = rest[1] + rest[2] + rest[3] + 2 * n

C17_Witness ==
    /\ Predicted
    /\ SharingCategories = {"environment", "governance"}
    /\ text = Str(CarbonUpper \o CarbonUpper)
    /\ Returned.esg_scores.Environmental = 2
    /\ Returned.esg_scores.Governance = 2
    /\ Returned.total_score = 4

\* C13: under every interleaving of the callers' statements, a call that has
\* returned has returned what predict_with_model returns for its text when run
\* alone, and the index the callers share still has its construction value.
C13_ConcurrentCallsAsAlone ==
    /\ esg_keywords = ValidatorKeywords
    /\ \A c \in Callers :
           calls[c].pc = "done" =>
               calls[c].result = predict_with_model(esg_keywords, calls[c].business_text)

C13_Witness ==
    /\ \A c \in Callers : calls[c].pc = "done" /\ calls[c].overlapped
    /\ calls[1].business_text # calls[2].business_text
    /\ calls[1].result.total_score = 2
    /\ calls[2].result.total_score = 3

\* What the method of the last generator call returns and sends for a generator self.
MethodOutcome(self) ==
    CASE generator.op = "generate_sustainable_business_ideas" ->
             generate_sustainable_business_ideas(self, generator.args, generator.reply)
      [] generator.op = "explain_esg_decision" ->
             explain_esg_decision(self, generator.args, generator.reply)
      [] generator.op = "answer_esg_question" ->
             answer_esg_question(self, generator.args, generator.reply)
      [] generator.op = "improve_business_idea" ->
             improve_business_idea(self, generator.args, generator.reply)
      [] generator.op = "create_esg_business_plan_outline" ->
             create_esg_business_plan_outline(self, generator.args, generator.reply)

\* C15: esg_model is the object loaded at construction, never invoked, or None;
\* what a method of the generator sends and returns is what it sends and returns
\* without a model; and the ratings of label_esg, predict_with_model and
\* _calculate_expected_esg_profile are those of the text alone.
C15_ModelOnlyLoaded ==
    /\ generator.self.esg_model \in {LoadedModel, None}
    /\ generator.op # "none" =>
           LET without == MethodOutcome([generator.self EXCEPT !.esg_model = None])
           IN generator.out = without.out /\ generator.request = without.request
    /\ ret.op = "predict_with_model" =>
           Returned = predict_with_model(esg_keywords, text)
    /\ ret.op = "label_esg" =>
           Returned = label_row(extract_features(ESG_KEYWORDS, text).value)
    /\ ret.op = "_calculate_expected_esg_profile" =>
           ret.out = calculate_expected_esg_profile(esg_keywords, text, ret.bias)

C15_Witness ==
    /\ generator.self.esg_model = LoadedModel
    /\ generator.op = "explain_esg_decision"
    /\ generator.out.raised = ""
    /\ generator.out.value.type = "str"
    /\ generator.request.json.prompt.user.sustainability_rating = "High"
    /\ Predicted
    /\ Returned.prediction = "Low"

\* The place of a rating in the order Low < Medium < High.
Rank(rating) ==
    CASE rating = "Low" -> 1
      [] rating = "Medium" -> 2
      [] rating = "High" -> 3

\* label.py has labelled every row of the data frame.
DataFrameLabelled == \A i \in DOMAIN df : "sustainability_label" \in DOMAIN df[i]

\* C21: of two totals the larger never gets the lower rating, from label_esg and
\* from the rating branch of predict_with_model alike, and every total from 0 on
\* lies in exactly one of the regions Low (below 200), Medium (200 to 599) and
\* High (600 and above).
C21_RatingMonotone ==
    DataFrameLabelled =>
        /\ \A i \in DOMAIN df, j \in DOMAIN df :
               df[i].total_esg <= df[j].total_esg =>
                   /\ Rank(df[i].sustainability_label) <= Rank(df[j].sustainability_label)
                   /\ Rank(PredictRating(df[i].total_esg))
                          <= Rank(PredictRating(df[j].total_esg))
        /\ \A i \in DOMAIN df :
               LET total == df[i].total_esg
                   rating == df[i].sustainability_label
               IN /\ total >= 0
                  /\ rating \in {"Low", "Medium", "High"}
                  /\ rating = "Low" <=> total < 200
                  /\ rating = "Medium" <=> (200 <= total /\ total < 600)
                  /\ rating = "High" <=> total >= 600
                  /\ PredictRating(total) = rating

C21_Witness ==
    /\ DataFrameLabelled
    /\ df[1].total_esg = 599
    /\ df[1].sustainability_label = "Medium"
    /\ df[2].total_esg = 600
    /\ df[2].sustainability_label = "High"

\* The last call was _calculate_expected_esg_profile on a text for which the
\* caller has kept what predict_with_model returned.
ProfileBesidePrediction ==
    /\ ret.op = "_calculate_expected_esg_profile"
    /\ ret.out.raised = ""
    /\ earlier # <<>>
    /\ earlier[1].text = text
    /\ earlier[1].value.prediction # "Error"

\* C22: for a str text, the profile for the bias balanced or an unknown bias has
\* the counts, the total and the rating of predict_with_model's result for the
\* same text; the total for low_esg is at most, and the total for high_esg,
\* env_focused and social_focused at least, predict_with_model's total.
C22_ProfileAgainstPrediction ==
    ProfileBesidePrediction =>
        LET profile == Returned
            predicted == earlier[1].value
        IN /\ ret.bias \notin {"high_esg", "low_esg", "env_focused", "social_focused"} =>
                  /\ profile.esg_scores.environment_score = predicted.esg_scores.Environmental
                  /\ profile.esg_scores.social_score = predicted.esg_scores.Social
                  /\ profile.esg_scores.governance_score = predicted.esg_scores.Governance
                  /\ profile.total_score = predicted.total_score
                  /\ profile.expected_rating = predicted.prediction
           /\ ret.bias = "low_esg" => profile.total_score <= predicted.total_score
           /\ ret.bias \in {"high_esg", "env_focused", "social_focused"} =>
                  profile.total_score >= predicted.total_score

C22_Witness ==
    /\ ProfileBesidePrediction
    /\ ret.bias = "low_esg"
    /\ earlier[1].value.total_score = 600
    /\ Returned.total_score = 180
    /\ Returned.expected_rating = "Low"


\* The sum of one counter over the data types of accuracy_by_type
RECURSIVE TypeSum(_, _, _)
TypeSum(by_type, types, field) ==
    IF types = {} THEN 0
    ELSE LET t == CHOOSE type \in types : TRUE
         IN by_type[t][field] + TypeSum(by_type, types \ {t}, field)

\* The counters of results agree with each other for a list of `processed` scenarios.
CountsAgree(results, processed) ==
    /\ results.correct_predictions <= processed
    /\ TypeSum(results.accuracy_by_type, DOMAIN results.accuracy_by_type, "total")
           = processed
    /\ TypeSum(results.accuracy_by_type, DOMAIN results.accuracy_by_type, "correct")
           = results.correct_predictions
    /\ Len(results.detailed_results) = processed
    /\ Len(results.confidence_stats) = processed

\* detailed_results holds the first `processed` scenarios, once each, in list order.
InListOrder(results, all_scenarios, processed) ==
    /\ processed <= Len(all_scenarios)
    /\ \A i \in 1..processed :
           /\ results.detailed_results[i].scenario_id = all_scenarios[i].id
           /\ results.detailed_results[i].data_type = all_scenarios[i].data_type

ValidationReturned ==
    /\ validator # None
    /\ validator.op = "validate_prediction_accuracy"
    /\ validator.frame.pc = "idle"

\* C23: validate_prediction_accuracy returns None and leaves test_results as it
\* was when there are no scenarios; otherwise every pass of the loop handles the
\* next scenario of the list, and on return correct_predictions <= total_scenarios,
\* the totals by data type sum to total_scenarios, the correct counts by data type
\* sum to correct_predictions, detailed_results and confidence_stats have
\* total_scenarios entries each, and test_results is the result returned.
C23_ValidationCounts ==
    /\ [](validator # None =>
            LET all_scenarios == validator.self.mock_data_scenarios
                                     \o validator.self.real_world_scenarios
            IN /\ validator.frame.pc = "loop" =>
                      /\ validator.frame.all_scenarios = all_scenarios
                      /\ validator.frame.results.total_scenarios = Len(all_scenarios)
                      /\ CountsAgree(validator.frame.results, validator.frame.next - 1)
                      /\ InListOrder(validator.frame.results, all_scenarios,
                                     validator.frame.next - 1)
               /\ ValidationReturned =>
                      IF all_scenarios = <<>>
                      THEN validator.out = Ok(None)
                      ELSE /\ validator.out.raised = ""
                           /\ validator.out.value # None
                           /\ validator.out.value.total_scenarios = Len(all_scenarios)
                           /\ CountsAgree(validator.out.value, Len(all_scenarios))
                           /\ InListOrder(validator.out.value, all_scenarios,
                                          Len(all_scenarios))
                           /\ validator.self.test_results = validator.out.value)
    /\ [][(/\ validator # None
           /\ validator.op # "validate_prediction_accuracy"
           /\ validator'.op = "validate_prediction_accuracy"
           /\ validator'.frame.pc = "idle")
              => /\ validator'.out = Ok(None)
                 /\ validator'.self.test_results = validator.self.test_results]_vars

\* A validation of mock and real-world scenarios together has returned, with a
\* wrong prediction among them.
C23_Witness ==
    /\ ValidationReturned
    /\ validator.self.mock_data_scenarios # <<>>
    /\ validator.self.real_world_scenarios # <<>>
    /\ validator.out.value # None
    /\ DOMAIN validator.out.value.accuracy_by_type = {"mock", "real_world"}
    /\ validator.out.value.correct_predictions > 0
    /\ validator.out.value.correct_predictions < validator.out.value.total_scenarios


\* The paths tracked when the cleanup of the last operation began
TrackedPaths ==
    {manager.tracked.temp_files[i] : i \in DOMAIN manager.tracked.temp_files}
        \cup {manager.tracked.temp_dirs[i] : i \in DOMAIN manager.tracked.temp_dirs}

\* After a cleanup the lists are empty, the tracked paths whose removal did not
\* fail are gone, and another cleanup removes nothing.
CleanedUp ==
    /\ manager.self.temp_files = <<>>
    /\ manager.self.temp_dirs = <<>>
    /\ \A path \in TrackedPaths \ manager.failing : path \notin manager.files
    /\ \A failing \in SUBSET (FileNames \cup DirNames) :
           LET again == cleanup(manager.self, manager.files, failing)
           IN /\ again.cleanup_count = 0
              /\ again.files = manager.files

RunReturned == manager # None /\ manager.op = "run_test_and_cleanup"

\* C24 as stated: one cleanup after the test function, bool(result) returned and
\* False returned whenever the test function raises.
C24_FalseWheneverRaising ==
    /\ RunReturned =>
           /\ manager.events = <<"test_function", "cleanup">>
           /\ manager.out = IF manager.test_function.outcome.raised = ""
                            THEN Ok(Bool(bool(manager.test_function.outcome.value)))
                            ELSE Ok(Bool(FALSE))
           /\ CleanedUp
    /\ (manager # None /\ manager.op = "cleanup") => CleanedUp

\* C24: run_test_and_cleanup runs cleanup once after the test function, whether
\* the test function returns or raises; it returns bool(result), returns False
\* when the test function raises an Exception, and lets any other exception
\* (KeyboardInterrupt) pass to its caller after the cleanup; after it, and after
\* any cleanup, both lists are empty, every tracked path whose removal did not
\* fail is gone, and one more cleanup removes nothing.
C24_CleanupOnceAfterTest ==
    /\ RunReturned =>
           /\ manager.events = <<"test_function", "cleanup">>
           /\ manager.out =
                  IF manager.test_function.outcome.raised = ""
                  THEN Ok(Bool(bool(manager.test_function.outcome.value)))
                  ELSE IF IsException(manager.test_function.outcome.raised)
                       THEN Ok(Bool(FALSE))
                       ELSE Raise(manager.test_function.outcome.raised)
           /\ CleanedUp
    /\ (manager # None /\ manager.op = "cleanup") => CleanedUp

\* A test function that made a file raised; the file was removed, while an
\* earlier tracked directory could not be removed and stays.
C24_Witness ==
    /\ RunReturned
    /\ manager.test_function.outcome.raised = "TimeoutExpired"
    /\ manager.test_function.creates # <<>>
    /\ manager.out = Ok(Bool(FALSE))
    /\ manager.tracked.temp_dirs # <<>>
    /\ manager.files = {"temp_data"}
    /\ manager.failing = {"temp_data"}


\* The test names of test_suite, in list order
SuiteNames == [i \in DOMAIN test_suite |-> test_suite[i].test_name] \o <<>>

\* s is the beginning of t.
IsPrefix(s, t) == Len(s) <= Len(t) /\ s = SubSeq(t \o <<>>, 1, Len(s))

RanAllTests == runner # None /\ runner.op = "run_all_tests"

RanIndividualTest == runner # None /\ runner.op = "run_individual_test"

\* C26 as stated: run_individual_test never raises and returns True exactly when
\* the file exists and the subprocess ends in time with exit code 0.
C26_NeverRaises ==
    RanIndividualTest =>
        /\ runner.out.raised = ""
        /\ runner.out.value.value =
               (/\ Exists(runner.files, runner.test_file)
                /\ runner.runs[1] = Ok(PyInt(0)))

\* C26: run_individual_test raises only what is not an Exception
\* (KeyboardInterrupt while the subprocess runs); when it returns, it returns
\* True exactly when the test file exists and its subprocess finishes within the
\* timeout with exit code 0, and False when the file is missing, the exit code
\* is not 0, the subprocess times out or another Exception is raised.
C26_TrueOnlyOnExitZero ==
    RanIndividualTest =>
        IF /\ Exists(runner.files, runner.test_file)
           /\ runner.runs[1].raised # ""
           /\ ~IsException(runner.runs[1].raised)
        THEN runner.out = Raise(runner.runs[1].raised)
        ELSE /\ runner.out.raised = ""
             /\ runner.out.value.value =
                    (/\ Exists(runner.files, runner.test_file)
                     /\ runner.runs[1] = Ok(PyInt(0)))

\* The test file exists and its subprocess ended with exit code 1.
C26_Witness ==
    /\ RanIndividualTest
    /\ Exists(runner.files, runner.test_file)
    /\ runner.runs[1] = Ok(PyInt(1))
    /\ runner.out = Ok(Bool(FALSE))

Cleaned == runner # None /\ runner.op \in {"perform_cleanup"}

\* The files directly in the test directory
DirectFiles(files) == {item \in files : item.parent = <<>> /\ item.is_file}

\* C27 as stated: the main test files stay, every other file directly in the test
\* directory goes unless its removal fails, and every __pycache__ directory goes.
C27_EveryPyCacheRemoved ==
    Cleaned =>
        /\ \A item \in DirectFiles(runner.before) :
               IF MainTestFile(item) THEN item \in runner.files
               ELSE item \notin runner.failing => item \notin runner.files
        /\ \A item \in runner.before :
               (~item.is_file /\ item.name = <<"__pycache__">>) => item \notin runner.files

\* C27: perform_cleanup keeps every file directly in the test directory whose
\* name starts with test_ and does not end with .pyc, deletes every other file
\* directly in the test directory unless its removal fails, and removes every
\* __pycache__ directory below the test directory unless its removal fails;
\* nothing else outside the removed directories is touched.
C27_KeepsMainTestFiles ==
    Cleaned =>
        /\ \A item \in DirectFiles(runner.before) :
               IF MainTestFile(item) THEN item \in runner.files
               ELSE item \notin runner.failing => item \notin runner.files
        /\ \A item \in runner.before :
               (~item.is_file /\ item.name = <<"__pycache__">>) =>
                   (item \notin runner.failing => item \notin runner.files)
        /\ runner.files \subseteq runner.before
        /\ \A item \in runner.before \ runner.files :
               \/ item \in DirectFiles(runner.before) /\ ~MainTestFile(item)
               \/ ~item.is_file /\ item.name = <<"__pycache__">>
               \/ \E directory \in runner.before \ runner.files :
                      item \in Inside(runner.before, directory)

\* A cleanup kept test_gemma.py, deleted test_gemma.pyc and prediction_validator.py,
\* removed the nested __pycache__ and failed to remove the one in the test directory.
C27_Witness ==
    /\ Cleaned
    /\ File(<<>>, test_suite[1].test_file) \in runner.files
    /\ CompiledTest \in runner.before \ runner.files
    /\ PredictionValidator \in runner.before \ runner.files
    /\ NestedPyCache \in runner.before \ runner.files
    /\ PyCache \in runner.files
    /\ PyCache \in runner.failing


\* The steps of main, in the order main calls them
MainSteps ==
    <<"check_ollama_status", "setup_recommended_model", "run_quick_test",
      "run_complete_demo">>

Ran(step) == \E i \in DOMAIN setup.steps : setup.steps[i] = step

\* The step ended without an exception leaving it.
Finished(step) ==
    \E i \in DOMAIN setup.steps :
        setup.steps[i] = step /\ (setup.raised = "" \/ i < Len(setup.steps))

ResponseOf(reply) == call_ollama(generator.self, None, None, reply).out

\* An exception is raised in the try block of _call_ollama.
RaisesInside(reply) ==
    \/ reply.kind = "raised"
    \/ /\ reply.status_code = 200
       /\ \/ reply.json.raised # ""
          \/ "response" \notin DOMAIN reply.json.value

\* One of the two strings _call_ollama makes of a failure
ErrorString(response) ==
    /\ response.type = "str"
    /\ \/ StartsWith(response.chars, "Error: ")
       \/ StartsWith(response.chars, "Connection error: ")

\* The number of sections holding 'IDEA #'
RECURSIVE IdeaSections(_)
IdeaSections(sections) ==
    IF sections = <<>> THEN 0
    ELSE (IF Contains(Head(sections), "IDEA #") THEN 1 ELSE 0) + IdeaSections(Tail(sections))

GeneratedIdeas ==
    /\ generator # None
    /\ generator.op = "generate_sustainable_business_ideas"

\* C29: _call_ollama never raises: it returns the 'response' field on HTTP 200,
\* a string starting with 'Error: ' on any other status code and a string
\* starting with 'Connection error: ' on any exception; so
\* generate_sustainable_business_ideas returns a list with one idea for each
\* section between '---' that holds 'IDEA #', and the empty list when the call
\* gave one of the two error strings.
C29_ErrorStringGivesNoIdeas ==
    GeneratedIdeas =>
        LET called == ResponseOf(generator.reply)
            response == called.value
        IN /\ called.raised = ""
           /\ IF RaisesInside(generator.reply)
              THEN response.type = "str" /\ StartsWith(response.chars, "Connection error: ")
              ELSE IF generator.reply.status_code = 200
                   THEN response = generator.reply.json.value["response"]
                   ELSE response.type = "str" /\ StartsWith(response.chars, "Error: ")
           /\ generator.out.raised = ""
           /\ response.type = "str" =>
                  Len(generator.out.value) = IdeaSections(Split(response.chars, "---"))
           /\ ErrorString(response) => generator.out.value = <<>>

====
